---- MODULE Spec2Model ----
(***************************************************************************)
(* The dataset catalog and search index of socdata.                        *)
(*                                                                         *)
(* SearchIndex (core/search_index.py) keeps three SQLite tables: datasets, *)
(* variable_labels and, when the engine has FTS5, the shadow table         *)
(* datasets_fts.  The registry (core/registry.py) declares the datasets of *)
(* the adapters and wraps the index in a search facade.                    *)
(*                                                                         *)
(* Text is modelled as a sequence of characters, each character a string   *)
(* of length one, so that LIKE, str.lower, the FTS5 tokenizer and          *)
(* json.dumps are computed rather than assumed.                            *)
(***************************************************************************)
EXTENDS Integers, Sequences, FiniteSets, TLC

----------------------------------------------------------------------------
(* Bounds of the model *)

\* number of write operations (index_dataset, rebuild_index, clear_index)
\* in one behaviour
MaxOps == 2

----------------------------------------------------------------------------
(* Characters and text *)

\* the characters U+00C4 and U+00E4, the one non-ASCII letter of the model
AUml == "A-umlaut"
aUml == "a-umlaut"

\* Python's None / SQL NULL in a text position
NULL == <<"NULL">>

UpperAscii == <<"A", "B", "C", "D", "E", "F", "G", "H", "I", "J", "K", "L", "M",
                "N", "O", "P", "Q", "R", "S", "T", "U", "V", "W", "X", "Y", "Z">>
LowerAscii == <<"a", "b", "c", "d", "e", "f", "g", "h", "i", "j", "k", "l", "m",
                "n", "o", "p", "q", "r", "s", "t", "u", "v", "w", "x", "y", "z">>
DigitChars == {"0", "1", "2", "3", "4", "5", "6", "7", "8", "9"}

Range(f) == {f[i] : i \in DOMAIN f}

Min(a, b) == IF a < b THEN a ELSE b

\* SQLite folds case in LIKE for the 26 ASCII letters only
AsciiLower(c) ==
    IF \E i \in 1..26 : UpperAscii[i] = c
    THEN LowerAscii[CHOOSE i \in 1..26 : UpperAscii[i] = c]
    ELSE c

\* str.lower() of one character
PyLowerChar(c) == IF c = AUml THEN aUml ELSE AsciiLower(c)

\* str.lower()
PyLower(s) == [i \in 1..Len(s) |-> PyLowerChar(s[i])]

\* Python's  a in b  for two strings
PyIn(a, b) ==
    \E i \in 0..(Len(b) - Len(a)) : \A j \in 1..Len(a) : b[i + j] = a[j]

\* str.replace(old, new) for a single character old
StrReplace(s, old, new) == [i \in 1..Len(s) |-> IF s[i] = old THEN new ELSE s[i]]

\* SQL  s LIKE p : % matches any run, _ any one character, letters compare
\* ASCII case-insensitively; NULL LIKE p is NULL, which a WHERE rejects
RECURSIVE LikeFrom(_, _, _, _)
LikeFrom(p, i, s, j) ==
    IF i > Len(p) THEN j > Len(s)
    ELSE IF p[i] = "%" THEN \E k \in j..(Len(s) + 1) : LikeFrom(p, i + 1, s, k)
    ELSE IF j > Len(s) THEN FALSE
    ELSE IF p[i] = "_" THEN LikeFrom(p, i + 1, s, j + 1)
    ELSE AsciiLower(p[i]) = AsciiLower(s[j]) /\ LikeFrom(p, i + 1, s, j + 1)

Like(s, p) == s # NULL /\ LikeFrom(p, 1, s, 1)

\* f"%{query}%"
QueryPattern(q) == <<"%">> \o q \o <<"%">>

----------------------------------------------------------------------------
(* FTS5: the unicode61 tokenizer and the query syntax *)

IsLetterOrDigit(c) ==
    \/ \E i \in 1..26 : UpperAscii[i] = c \/ LowerAscii[i] = c
    \/ c \in DigitChars
    \/ c \in {AUml, aUml}

\* unicode61 folds case and removes diacritics
Unicode61Fold(c) == IF c \in {AUml, aUml} THEN "a" ELSE AsciiLower(c)

\* the tokens of a text: maximal runs of letters and digits, folded
RECURSIVE TokenizeFrom(_, _, _, _)
TokenizeFrom(s, i, cur, acc) ==
    IF i > Len(s) THEN (IF cur = <<>> THEN acc ELSE Append(acc, cur))
    ELSE IF IsLetterOrDigit(s[i])
         THEN TokenizeFrom(s, i + 1, Append(cur, Unicode61Fold(s[i])), acc)
         ELSE TokenizeFrom(s, i + 1, <<>>, IF cur = <<>> THEN acc ELSE Append(acc, cur))

Tokenize(s) == IF s = NULL THEN <<>> ELSE TokenizeFrom(s, 1, <<>>, <<>>)

\* a phrase matches a column when its tokens occur there consecutively
PhraseIn(phrase, tokens) ==
    /\ phrase # <<>>
    /\ \E i \in 0..(Len(tokens) - Len(phrase)) :
          \A j \in 1..Len(phrase) : tokens[i + j] = phrase[j]

\* the words of a query, split at blanks
RECURSIVE WordsFrom(_, _, _, _)
WordsFrom(s, i, cur, acc) ==
    IF i > Len(s) THEN (IF cur = <<>> THEN acc ELSE Append(acc, cur))
    ELSE IF s[i] = " "
         THEN WordsFrom(s, i + 1, <<>>, IF cur = <<>> THEN acc ELSE Append(acc, cur))
         ELSE WordsFrom(s, i + 1, Append(cur, s[i]), acc)

Words(q) == WordsFrom(q, 1, <<>>, <<>>)

\* an FTS5 bareword: letters, digits, underscore, non-ASCII characters
IsBarewordChar(c) == IsLetterOrDigit(c) \/ c = "_"

\* MATCH ? raises sqlite3.OperationalError (syntax error, no such column)
\* for an empty query and for a query with a character that is neither a
\* bareword character nor a blank.  The queries of the model use no quotes,
\* no operator keyword (AND, OR, NOT, NEAR) and no column name before a colon.
Fts5SyntaxError(q) ==
    \/ Words(q) = <<>>
    \/ \E i \in 1..Len(q) : ~IsBarewordChar(q[i]) /\ q[i] # " "

\* json.dumps of a dict of str -> str, as a text; keys and values of the
\* model need no escaping
RECURSIVE JsonPairs(_, _)
JsonPairs(pairs, i) ==
    IF i > Len(pairs) THEN <<>>
    ELSE (IF i > 1 THEN <<",", " ">> ELSE <<>>)
         \o <<"\"">> \o pairs[i][1] \o <<"\"", ":", " ", "\"">> \o pairs[i][2] \o <<"\"">>
         \o JsonPairs(pairs, i + 1)

JsonDumpsFlat(pairs) == <<"{">> \o JsonPairs(pairs, 1) \o <<"}">>

\* json.dumps of a dict of str -> dict of str -> str
RECURSIVE JsonNested(_, _)
JsonNested(pairs, i) ==
    IF i > Len(pairs) THEN <<>>
    ELSE (IF i > 1 THEN <<",", " ">> ELSE <<>>)
         \o <<"\"">> \o pairs[i][1] \o <<"\"", ":", " ">> \o JsonDumpsFlat(pairs[i][2])
         \o JsonNested(pairs, i + 1)

JsonDumpsNested(pairs) == <<"{">> \o JsonNested(pairs, 1) \o <<"}">>

\* var_labels_text / val_labels_text of index_dataset
VarLabelsText(variable_labels) ==
    IF variable_labels # <<>> THEN JsonDumpsFlat(variable_labels) ELSE <<>>

ValLabelsText(value_labels) ==
    IF value_labels # <<>> THEN JsonDumpsNested(value_labels) ELSE <<>>

\* the columns of a shadow row that MATCH searches
FtsColumns(f) == <<f.id, f.source, f.title, f.description, f.variable_labels, f.value_labels>>

\* datasets_fts MATCH q for a well-formed q: every word of q, tokenized into
\* a phrase, occurs in some column of the row
Fts5Match(f, q) ==
    \A w \in Range(Words(q)) :
        \E c \in Range(FtsColumns(f)) : PhraseIn(Tokenize(w), Tokenize(c))

----------------------------------------------------------------------------
(* The adapter registry: the datasets two of the adapters declare *)

id_wvs == <<"m", "a", "n", "u", "a", "l", ":", "w", "v", "s">>
id_gss_cumulative == <<"g", "s", "s", ":", "g", "s", "s", "-", "c", "u", "m", "u", "l", "a", "t", "i", "v", "e">>
id_gss_2022 == <<"g", "s", "s", ":", "g", "s", "s", "-", "2", "0", "2", "2">>
id_test == <<"t", "e", "s", "t", ":", "d", "a", "t", "a", "s", "e", "t", "1">>

src_manual == <<"m", "a", "n", "u", "a", "l">>
src_gss == <<"g", "s", "s">>
src_test == <<"t", "e", "s", "t">>

\* ManualAdapter.list_datasets
ManualDatasets ==
    << [id |-> id_wvs, source |-> src_manual,
        title |-> <<"W", "o", "r", "l", "d", " ", "V", "a", "l", "u", "e", "s", " ", "S", "u", "r", "v", "e", "y", " ", "(", "m", "a", "n", "u", "a", "l", " ", "i", "n", "g", "e", "s", "t", ")">>] >>

\* GSSAdapter.list_datasets
GSSDatasets ==
    << [id |-> id_gss_cumulative, source |-> src_gss,
        title |-> <<"G", "S", "S", " ", "C", "u", "m", "u", "l", "a", "t", "i", "v", "e", " ", "D", "a", "t", "a", " ", "(", "1", "9", "7", "2", "-", "p", "r", "e", "s", "e", "n", "t", ")">>],
       [id |-> id_gss_2022, source |-> src_gss,
        title |-> <<"G", "S", "S", " ", "2", "0", "2", "2", " ", "C", "r", "o", "s", "s", "-", "S", "e", "c", "t", "i", "o", "n">>] >>

\* _ADAPTERS, in the order of the dict, restricted to two adapters
ADAPTERS == << [key |-> src_manual, datasets |-> ManualDatasets],
               [key |-> src_gss, datasets |-> GSSDatasets] >>

\* a falsy str argument: None or ""
Falsy(s) == s = NULL \/ s = <<>>

\* list_datasets(source)
RECURSIVE ListDatasetsFrom(_, _)
ListDatasetsFrom(source, i) ==
    IF i > Len(ADAPTERS) THEN <<>>
    ELSE (IF ~Falsy(source) /\ source # ADAPTERS[i].key
          THEN <<>> ELSE ADAPTERS[i].datasets)
         \o ListDatasetsFrom(source, i + 1)

ListDatasets(source) == ListDatasetsFrom(source, 1)

----------------------------------------------------------------------------
(* The inputs of the model *)

age_labels == << <<<<"a", "g", "e">>, <<"A", "g", "e", " ", "i", "n", " ", "y", "e", "a", "r", "s">>>>, <<<<"i", "n", "c", "o", "m", "e">>, <<"A", "n", "n", "u", "a", "l", " ", "i", "n", "c", "o", "m", "e">>>> >>
height_labels == << <<<<"h", "e", "i", "g", "h", "t">>, <<"H", "e", "i", "g", "h", "t", " ", "i", "n", " ", "c", "m">>>> >>
gender_values == << <<<<"g", "e", "n", "d", "e", "r">>, << <<<<"1">>, <<"M", "a", "l", "e">>>>, <<<<"2">>, <<"F", "e", "m", "a", "l", "e">>>> >> >> >>

lic_MIT == <<"M", "I", "T">>

\* the calls of index_dataset the model makes: two versions of a declared
\* dataset, two of an undeclared one (the second under another source and
\* with a non-ASCII title), and one more declared dataset
UpsertInputs ==
    { [dataset_id |-> id_gss_2022, source |-> src_gss,
       title |-> <<"G", "S", "S", " ", "2", "0", "2", "2", " ", "C", "r", "o", "s", "s", "-", "S", "e", "c", "t", "i", "o", "n">>, description |-> NULL,
       license |-> NULL, access_mode |-> "direct",
       variable_labels |-> age_labels, value_labels |-> <<>>],
      [dataset_id |-> id_gss_2022, source |-> src_gss,
       title |-> <<"g", "s", "s", " ", "d", "a", "t", "a", "s", "e", "t">>, description |-> <<"S", "u", "r", "v", "e", "y", " ", "o", "f", " ", "a", "g", "e", " ", "g", "r", "o", "u", "p", "s">>,
       license |-> lic_MIT, access_mode |-> "manual",
       variable_labels |-> height_labels, value_labels |-> gender_values],
      [dataset_id |-> id_test, source |-> src_test,
       title |-> <<"T", "e", "s", "t", " ", "D", "a", "t", "a", "s", "e", "t">>, description |-> <<"A", " ", "t", "e", "s", "t", " ", "d", "a", "t", "a", "s", "e", "t">>,
       license |-> NULL, access_mode |-> "direct",
       variable_labels |-> age_labels, value_labels |-> <<>>],
      [dataset_id |-> id_test, source |-> <<"o", "t", "h", "e", "r">>,
       title |-> <<AUml, "r", "z", "t", "e", " ", "2", "0", "2", "2">>, description |-> NULL,
       license |-> lic_MIT, access_mode |-> "direct",
       variable_labels |-> <<>>, value_labels |-> <<>>],
      [dataset_id |-> id_wvs, source |-> src_manual,
       title |-> <<"W", "o", "r", "l", "d", " ", "V", "a", "l", "u", "e", "s", " ", "S", "u", "r", "v", "e", "y", " ", "(", "m", "a", "n", "u", "a", "l", " ", "i", "n", "g", "e", "s", "t", ")">>, description |-> NULL,
       license |-> NULL, access_mode |-> "manual",
       variable_labels |-> height_labels, value_labels |-> <<>>] }

\* every dataset id of the model
DatasetIds == {id_wvs, id_gss_cumulative, id_gss_2022, id_test}

----------------------------------------------------------------------------
(* The catalog file: the tables of _init_db *)

VARIABLES
    engine_fts5,     \* whether the SQLite library of the process has FTS5
    fts5_available,  \* SearchIndex._fts5_available
    db,              \* the file at index_path: datasets, variable_labels, datasets_fts
    clock,           \* datetime.utcnow(), one tick per reading
    manifests,       \* the ingestion_manifest.json files under the cache root
    processed,       \* the cache entries that hold processed/data.parquet
    ingests,         \* number of ingestions so far
    metadata,        \* CacheManager.metadata: per cache key, when it was cached
    cache_ttl_hours, \* config.cache_ttl_hours
    procs,           \* the processes inside index_dataset at the same time
    ops,             \* number of write operations so far
    last_write,      \* history: the most recent write operation
    indexed,         \* history: per dataset id, the arguments of its
                     \* index_dataset calls since the file was created
    ret              \* the call that has just returned, with its result

vars == <<engine_fts5, fts5_available, db, clock, manifests, processed, ingests,
          metadata, cache_ttl_hours, procs, ops, last_write, indexed, ret>>

\* the default of SocDataConfig.cache_ttl_hours
DefaultTtlHours == 24

\* the probe of _init_db: CREATE VIRTUAL TABLE ... USING fts5 and DROP; it
\* sets the flag to False on any OperationalError or DatabaseError, the one
\* of an engine without FTS5 and the "database is locked" of a file another
\* connection is writing to alike
Fts5Probe(engine, locked) == engine /\ ~locked

\* no process is inside index_dataset
NoProcs == <<>>

\* the tables right after _init_db on a new file
EmptyDb == [datasets |-> {}, variable_labels |-> {}, datasets_fts |-> {}]

\* clear_index without the unlink: CREATE TABLE IF NOT EXISTS keeps the rows
ClearedDb_KeepFile(d) == d

\* the file after clear_index: unlinked, then created again by _init_db
ClearedDb(d) == EmptyDb

\* SELECT rowid FROM datasets WHERE id = ?
SelectRow(d, dataset_id) == {r \in d.datasets : r.id = dataset_id}

\* the rowid SQLite gives a new row: one more than the largest in the table
NextRowid(rows) ==
    IF rows = {} THEN 1
    ELSE (CHOOSE m \in {r.rowid : r \in rows} : \A r \in rows : r.rowid <= m) + 1

\* the UPDATE with the license left out of the SET list
UpdateDatasets_NoLicense(rows, a, now) ==
    { IF r.id = a.dataset_id
      THEN [r EXCEPT !.title = a.title, !.description = a.description,
                     !.access_mode = a.access_mode, !.updated_at = now]
      ELSE r : r \in rows }

\* the UPDATE with title and description bound in the wrong order
UpdateDatasets_Swapped(rows, a, now) ==
    { IF r.id = a.dataset_id
      THEN [r EXCEPT !.title = a.description, !.description = a.title,
                     !.license = a.license, !.access_mode = a.access_mode,
                     !.updated_at = now]
      ELSE r : r \in rows }

\* the UPDATE with the source in the SET list as well
UpdateDatasets_WithSource(rows, a, now) ==
    { IF r.id = a.dataset_id
      THEN [r EXCEPT !.source = a.source,
                     !.title = a.title, !.description = a.description,
                     !.license = a.license, !.access_mode = a.access_mode,
                     !.updated_at = now]
      ELSE r : r \in rows }

\* UPDATE datasets SET title, description, license, access_mode, updated_at
UpdateDatasets(rows, a, now) ==
    { IF r.id = a.dataset_id
      THEN [r EXCEPT !.title = a.title, !.description = a.description,
                     !.license = a.license, !.access_mode = a.access_mode,
                     !.updated_at = now]
      ELSE r : r \in rows }

\* an INSERT OR REPLACE that empties the table first
InsertDatasets_Replace(rows, a, now) ==
    { [rowid |-> 1, id |-> a.dataset_id, source |-> a.source,
       title |-> a.title, description |-> a.description,
       license |-> a.license, access_mode |-> a.access_mode,
       created_at |-> now, updated_at |-> now] }

\* INSERT INTO datasets
InsertDatasets(rows, a, now) ==
    rows \cup { [rowid |-> NextRowid(rows), id |-> a.dataset_id, source |-> a.source,
                 title |-> a.title, description |-> a.description,
                 license |-> a.license, access_mode |-> a.access_mode,
                 created_at |-> now, updated_at |-> now] }

\* index_dataset without the DELETE: the labels are merged
DeleteVariableLabels_Keep(rows, dataset_id) == rows

\* DELETE FROM variable_labels WHERE dataset_id = ?
DeleteVariableLabels(rows, dataset_id) == {l \in rows : l.dataset_id # dataset_id}

\* INSERT INTO variable_labels, once per item of the dict
InsertVariableLabels(rows, dataset_id, variable_labels) ==
    rows \cup { [dataset_id |-> dataset_id, variable_name |-> p[1], label |-> p[2]] :
                p \in Range(variable_labels) }

\* UPDATE datasets_fts ... WHERE rowid = ?  The shadow is an external-content
\* table over datasets, which has no column variable_labels or value_labels:
\* SQLite cannot read the old row back and raises OperationalError
\* ("no such column: T.variable_labels"), which index_dataset swallows.
UpdateDatasetsFts(rows, rowid, a) == rows

\* INSERT INTO datasets_fts
InsertDatasetsFts(rows, rowid, a) ==
    rows \cup { [rowid |-> rowid, id |-> a.dataset_id, source |-> a.source,
                 title |-> a.title,
                 description |-> IF a.description = NULL THEN <<>> ELSE a.description,
                 variable_labels |-> VarLabelsText(a.variable_labels),
                 value_labels |-> ValLabelsText(a.value_labels)] }

\* SearchIndex.index_dataset: the tables after the commit
IndexDataset(d, fts5, a, now) ==
    LET exists == SelectRow(d, a.dataset_id)
        rowid == IF exists # {} THEN (CHOOSE r \in exists : TRUE).rowid
                 ELSE NextRowid(d.datasets)
    IN  [datasets |-> IF exists # {} THEN UpdateDatasets(d.datasets, a, now)
                      ELSE InsertDatasets(d.datasets, a, now),
         variable_labels |->
             InsertVariableLabels(DeleteVariableLabels(d.variable_labels, a.dataset_id),
                                  a.dataset_id, a.variable_labels),
         datasets_fts |->
             IF ~fts5 THEN d.datasets_fts
             ELSE IF exists # {} THEN UpdateDatasetsFts(d.datasets_fts, rowid, a)
             ELSE InsertDatasetsFts(d.datasets_fts, rowid, a)]

\* the statements of index_dataset that write, in order: 1 the UPDATE or
\* INSERT on datasets, 2 the DELETE on variable_labels, 2 + i the INSERT of
\* the i-th label, and last the texts and the statement for the shadow
IndexDatasetSteps(a) == 1..(Len(a.variable_labels) + 3)

\* the tables as the connection of index_dataset sees them when statement
\* fault_step raises: the statements before it have run, no commit yet
IndexDatasetUpTo(d, fts5, a, now, fault_step) ==
    LET exists == SelectRow(d, a.dataset_id)
    IN  [datasets |-> IF fault_step <= 1 THEN d.datasets
                      ELSE IF exists # {} THEN UpdateDatasets(d.datasets, a, now)
                      ELSE InsertDatasets(d.datasets, a, now),
         variable_labels |->
             IF fault_step <= 2 THEN d.variable_labels
             ELSE InsertVariableLabels(
                      DeleteVariableLabels(d.variable_labels, a.dataset_id),
                      a.dataset_id, SubSeq(a.variable_labels, 1, fault_step - 3)),
         datasets_fts |-> d.datasets_fts]

\* the exception statement fault_step raises: a storage error of SQLite, or
\* the TypeError of json.dumps over value labels it cannot serialise
IndexDatasetError(a, fault_step) ==
    IF fault_step = Len(a.variable_labels) + 3 THEN "TypeError" ELSE "OperationalError"

\* a connection in autocommit mode: each statement is committed as it runs
Abandoned_Autocommit(d, working) == working

\* the file after index_dataset has raised: the exception leaves the function
\* before conn.commit(), and the connection is rolled back when it is closed
\* or finalized; until then its changes are visible to no other connection
Abandoned(d, working) == d

\* SearchIndex.get_dataset_info
GetDatasetInfo(d, dataset_id) ==
    LET rows == SelectRow(d, dataset_id)
    IN  IF rows = {} THEN [found |-> FALSE]
        ELSE LET row == CHOOSE r \in rows : TRUE
             IN  [found |-> TRUE, id |-> row.id, source |-> row.source,
                  title |-> row.title, description |-> row.description,
                  license |-> row.license, access_mode |-> row.access_mode,
                  created_at |-> row.created_at, updated_at |-> row.updated_at,
                  variable_labels |->
                      { <<l.variable_name, l.label>> :
                        l \in {x \in d.variable_labels : x.dataset_id = dataset_id} }]

\* the history after an index_dataset with arguments a
Record(h, a) ==
    [x \in DOMAIN h \cup {a.dataset_id} |->
        IF x = a.dataset_id
        THEN (IF x \in DOMAIN h THEN Append(h[x], a) ELSE <<a>>)
        ELSE h[x]]

\* the arguments of the most recent index_dataset for an indexed id
LastArgs(dataset_id) == indexed[dataset_id][Len(indexed[dataset_id])]

Idle == [op |-> "idle"]

----------------------------------------------------------------------------
(* Queries *)

\* limit: int = 100 of search and search_advanced
DefaultLimit == 100

Summary(r) == [id |-> r.id, source |-> r.source, title |-> r.title]

Summaries(rows) == [i \in 1..Len(rows) |-> Summary(rows[i])]

\* the statement without its LIMIT clause
Limit_None(rows, limit) == rows

\* LIMIT ?
Limit(rows, limit) == SubSeq(rows, 1, Min(limit, Len(rows)))

\* a table scan returns the rows by rowid
RECURSIVE ByRowid(_)
ByRowid(rows) ==
    IF rows = {} THEN <<>>
    ELSE LET r == CHOOSE x \in rows : \A y \in rows : x.rowid <= y.rowid
         IN  <<r>> \o ByRowid(rows \ {r})

\* ORDER BY d.updated_at DESC
RECURSIVE ByUpdatedAtDesc(_)
ByUpdatedAtDesc(rows) ==
    IF rows = {} THEN <<>>
    ELSE LET r == CHOOSE x \in rows : \A y \in rows : x.updated_at >= y.updated_at
         IN  <<r>> \o ByUpdatedAtDesc(rows \ {r})

\* ORDER BY rank: the order is the engine's (bm25), any order of the rows
Rankings(rows) ==
    {s \in [1..Cardinality(rows) -> rows] : \A i, j \in DOMAIN s : i # j => s[i] # s[j]}

\* AND d.source = ?, present only  if source:
SourceCond(r, source) == Falsy(source) \/ r.source = source

\* FROM datasets d JOIN datasets_fts fts ON d.rowid = fts.rowid
\* WHERE datasets_fts MATCH ?
FtsCond(d, r, query) ==
    \E f \in d.datasets_fts : f.rowid = r.rowid /\ Fts5Match(f, query)

\* the LIKE condition without the description
LikeCond_NoDescription(r, query) ==
    \/ Like(r.title, QueryPattern(query))
    \/ Like(r.id, QueryPattern(query))

\* title LIKE ? OR id LIKE ? OR description LIKE ?
LikeCond(r, query) ==
    \/ Like(r.title, QueryPattern(query))
    \/ Like(r.id, QueryPattern(query))
    \/ Like(r.description, QueryPattern(query))

\* title LIKE ? OR id LIKE ?, the query of the except branch of search
RetryCond(r, query) ==
    \/ Like(r.title, QueryPattern(query))
    \/ Like(r.id, QueryPattern(query))

\* EXISTS (SELECT 1 FROM variable_labels vl WHERE vl.dataset_id = d.id
\*         AND vl.variable_name LIKE ?)
VariableCond(d, r, variable_name) ==
    \E l \in d.variable_labels :
        l.dataset_id = r.id /\ Like(l.variable_name, QueryPattern(variable_name))

\* the error of cursor.execute: the injected fault of the engine (locked or
\* damaged file), else the syntax error of an FTS5 query
ExecuteError(fts, query, fault) ==
    IF fault # "none" THEN fault
    ELSE IF fts /\ Fts5SyntaxError(query) THEN "OperationalError"
    ELSE "none"

\* except sqlite3.OperationalError: of search
SearchCatches(err) == err = "OperationalError"

\* the rows the first statement of search selects
SearchRows(d, fts5, query, source) ==
    {r \in d.datasets :
        /\ IF fts5 THEN FtsCond(d, r, query) ELSE LikeCond(r, query)
        /\ SourceCond(r, source)}

\* SearchIndex.search; rank is the order ORDER BY rank gives the matched rows
Search(d, fts5, query, source, limit, fault, retry_fault, rank) ==
    LET err == ExecuteError(fts5, query, fault)
    IN  IF err = "none"
        THEN [raised |-> "none", executes |-> 1,
              results |-> Summaries(Limit(IF fts5 THEN rank
                                          ELSE ByRowid(SearchRows(d, fts5, query, source)),
                                          limit))]
        ELSE IF SearchCatches(err)
        THEN IF retry_fault # "none"
             THEN [raised |-> retry_fault, executes |-> 2, results |-> <<>>]
             ELSE [raised |-> "none", executes |-> 2,
                   results |-> Summaries(Limit(ByRowid(
                       {r \in d.datasets : RetryCond(r, query) /\ SourceCond(r, source)}),
                       limit))]
        ELSE [raised |-> err, executes |-> 1, results |-> <<>>]

\* the conditions of search_advanced joined by OR
AdvancedRows_AnyCond(d, fts5, query, source, variable_name) ==
    {r \in d.datasets :
        \/ Falsy(query) /\ Falsy(source) /\ Falsy(variable_name)
        \/ ~Falsy(query) /\ (IF fts5 THEN FtsCond(d, r, query) ELSE LikeCond(r, query))
        \/ ~Falsy(source) /\ r.source = source
        \/ ~Falsy(variable_name) /\ VariableCond(d, r, variable_name)}

\* the rows the statement of search_advanced selects
AdvancedRows(d, fts5, query, source, variable_name) ==
    {r \in d.datasets :
        /\ Falsy(query) \/ (IF fts5 THEN FtsCond(d, r, query) ELSE LikeCond(r, query))
        /\ SourceCond(r, source)
        /\ Falsy(variable_name) \/ VariableCond(d, r, variable_name)}

\* SearchIndex.search_advanced
SearchAdvanced(d, fts5, query, source, variable_name, limit, fault) ==
    LET err == ExecuteError(fts5 /\ ~Falsy(query), query, fault)
    IN  IF err = "none"
        THEN [raised |-> "none", executes |-> 1,
              results |-> Summaries(Limit(ByUpdatedAtDesc(
                  AdvancedRows(d, fts5, query, source, variable_name)), limit))]
        ELSE [raised |-> err, executes |-> 1, results |-> <<>>]

\* the inputs of the queries
SearchQueries ==
    { <<"D", "a", "t", "a", "s", "e", "t">>, <<"a", "g", "e">>, <<"g", "d", "p">>, <<"g", "s", "s", "_", "2", "0", "2", "2">>, <<"t", "e", "s", "t", ":", "d", "a", "t", "a", "s", "e", "t", "1">>, <<>>, <<aUml, "r", "z", "t", "e">> }

AdvancedQueries == { NULL, <<"D", "a", "t", "a", "s", "e", "t">>, <<"a", "g", "e">>, <<"t", "e", "s", "t", ":", "d", "a", "t", "a", "s", "e", "t", "1">> }

SourceFilters == { NULL, <<>>, src_gss }

VariableNames == { NULL, <<"a", "g", "e">>, <<"h", "e", "i", "g", "h", "t">> }

Limits == { 1, DefaultLimit }

Faults == { "none", "OperationalError", "DatabaseError" }

RetryFaults == { "none", "OperationalError" }

----------------------------------------------------------------------------
(* The cache directory and rebuild_index *)

version_latest == <<"l", "a", "t", "e", "s", "t">>

\* get_dataset_dir(source, dataset, version) / "meta" / "ingestion_manifest.json"
ManifestPath(source, dataset, version) == <<source, dataset, version>>

\* the manifest ManualAdapter.ingest writes for manual:wvs
wvs_manifest ==
    [kind |-> "json",
     data |-> [adapter |-> "manual", dataset_id |-> id_wvs, source |-> src_manual,
               license |-> NULL, variable_labels |-> age_labels,
               value_labels |-> gender_values]]

lic_GSS == <<"G", "S", "S", " ", "d", "a", "t", "a", " ", "u", "s", "e", " ", "a", "g", "r", "e", "e", "m", "e", "n", "t", " ", "r", "e", "q", "u", "i", "r", "e", "d", " ", "-", " ", "s", "e", "e", " ", "h", "t", "t", "p", "s", ":", "/", "/", "g", "s", "s", ".", "n", "o", "r", "c", ".", "o", "r", "g">>

\* the manifest GSSAdapter.ingest writes for gss:gss-2022
gss_manifest ==
    [kind |-> "json",
     data |-> [adapter |-> "gss", dataset_id |-> id_gss_2022, source |-> src_gss,
               license |-> lic_GSS, variable_labels |-> height_labels,
               value_labels |-> <<>>]]

\* a manifest file that json.loads rejects
garbage_manifest == [kind |-> "garbage"]

\* a manifest file that json.loads accepts and whose "variable_labels" is a
\* JSON array instead of an object
array_labels_manifest ==
    [kind |-> "array_labels",
     data |-> [adapter |-> "manual", dataset_id |-> id_wvs, source |-> src_manual,
               license |-> NULL]]

\* the contents of the cache directory the model starts from: no manifest,
\* the manifest of a manual ingestion (intact, not JSON, or with labels of
\* the wrong type), the manifest of a GSS ingestion
CacheStates ==
    { <<>>,
      (ManifestPath(src_manual, <<"m", "a", "n", "u", "a", "l", "_", "w", "v", "s">>, version_latest) :> wvs_manifest),
      (ManifestPath(src_manual, <<"m", "a", "n", "u", "a", "l", "_", "w", "v", "s">>, version_latest) :> garbage_manifest),
      (ManifestPath(src_manual, <<"m", "a", "n", "u", "a", "l", "_", "w", "v", "s">>, version_latest) :> array_labels_manifest),
      (ManifestPath(src_gss, <<"g", "s", "s", "-", "2", "0", "2", "2">>, version_latest) :> gss_manifest) }

\* the arguments rebuild_index passes to index_dataset for a declared dataset
RebuildArgs(ds, files) ==
    LET manifest_path == ManifestPath(ds.source, StrReplace(ds.id, ":", "_"), version_latest)
        loaded == manifest_path \in DOMAIN files /\ files[manifest_path].kind = "json"
    IN  [dataset_id |-> ds.id, source |-> ds.source, title |-> ds.title,
         description |-> NULL,
         license |-> IF loaded THEN files[manifest_path].data.license ELSE NULL,
         access_mode |-> "direct",
         variable_labels |-> IF loaded THEN files[manifest_path].data.variable_labels ELSE <<>>,
         value_labels |-> IF loaded THEN files[manifest_path].data.value_labels ELSE <<>>]

\* the error of the index_dataset call rebuild_index makes for a declared
\* dataset: variable_labels.items() on a list is an AttributeError, and the
\* statements on the tables raise what SQLite raises (fault_here)
RebuildIndexError(ds, files, fault_here) ==
    LET manifest_path == ManifestPath(ds.source, StrReplace(ds.id, ":", "_"), version_latest)
    IN  IF manifest_path \in DOMAIN files /\ files[manifest_path].kind = "array_labels"
        THEN "AttributeError"
        ELSE IF fault_here THEN "OperationalError"
        ELSE "none"

\* the position in list_datasets() at which rebuild_index stops: that of the
\* first dataset whose index_dataset raises (nothing catches it), or past
\* the end
RECURSIVE RebuildStopsFrom(_, _, _)
RebuildStopsFrom(files, fault_at, i) ==
    IF i > Len(ListDatasets(NULL)) THEN i
    ELSE IF RebuildIndexError(ListDatasets(NULL)[i], files, fault_at = i) # "none" THEN i
    ELSE RebuildStopsFrom(files, fault_at, i + 1)

RebuildStops(files, fault_at) == RebuildStopsFrom(files, fault_at, 1)

\* what rebuild_index raises
RebuildRaised(files, fault_at) ==
    LET stop == RebuildStops(files, fault_at)
    IN  IF stop > Len(ListDatasets(NULL)) THEN "none"
        ELSE RebuildIndexError(ListDatasets(NULL)[stop], files, fault_at = stop)

\* SearchIndex.rebuild_index: the loop over list_datasets(), from its i-th
\* dataset on and up to the one at which it stops; every index_dataset
\* reads the clock, and the one that raises commits nothing
RECURSIVE RebuildIndexFrom(_, _, _, _, _, _)
RebuildIndexFrom(d, fts5, files, now, i, stop) ==
    IF i >= stop THEN d
    ELSE RebuildIndexFrom(
             IndexDataset(d, fts5, RebuildArgs(ListDatasets(NULL)[i], files), now),
             fts5, files, now + 1, i + 1, stop)

RebuildIndex(d, fts5, files, now, fault_at) ==
    RebuildIndexFrom(d, fts5, files, now, 1, RebuildStops(files, fault_at))

\* the history after rebuild_index
RECURSIVE RecordRebuildFrom(_, _, _, _)
RecordRebuildFrom(h, files, i, stop) ==
    IF i >= stop THEN h
    ELSE RecordRebuildFrom(Record(h, RebuildArgs(ListDatasets(NULL)[i], files)),
                           files, i + 1, stop)

\* what the catalog holds: per id the title, the license and the labels
Catalog(d) ==
    [dataset_id \in {r.id : r \in d.datasets} |->
        LET r == CHOOSE x \in d.datasets : x.id = dataset_id
        IN  [title |-> r.title, license |-> r.license,
             variable_labels |->
                 { <<l.variable_name, l.label>> :
                   l \in {x \in d.variable_labels : x.dataset_id = dataset_id} }]]

----------------------------------------------------------------------------
(* The search facade of the registry *)

\* the fallback of search_datasets: simple string matching over list_datasets
SimpleSearch(query, source) ==
    LET Matches(ds) == \/ PyIn(PyLower(query), PyLower(ds.title))
                       \/ PyIn(PyLower(query), PyLower(ds.id))
    IN  SelectSeq(ListDatasets(source), Matches)

\* the facade catching SearchIndexError only
FacadeCatches_IndexErrorOnly(err) == err = "SearchIndexError"

\* except (SearchIndexError, Exception) of the facade
FacadeCatches(err) == TRUE

\* registry.search_datasets; index_fault is the error of get_index()
SearchDatasets(d, fts5, query, source, use_index, index_fault, fault, retry_fault, rank) ==
    LET out == Search(d, fts5, query, source, DefaultLimit, fault, retry_fault, rank)
        err == IF index_fault # "none" THEN index_fault ELSE out.raised
    IN  IF ~use_index
        THEN [raised |-> "none", index_error |-> "none", results |-> SimpleSearch(query, source)]
        ELSE IF err = "none"
        THEN [raised |-> "none", index_error |-> "none",
              results |-> IF out.results # <<>> THEN out.results
                          ELSE SimpleSearch(query, source)]
        ELSE IF FacadeCatches(err)
        THEN [raised |-> "none", index_error |-> err, results |-> SimpleSearch(query, source)]
        ELSE [raised |-> err, index_error |-> err, results |-> <<>>]

\* registry.search_datasets_advanced
SearchDatasetsAdvanced(d, fts5, query, source, variable_name, index_fault, fault) ==
    LET out == SearchAdvanced(d, fts5, query, source, variable_name, DefaultLimit, fault)
        err == IF index_fault # "none" THEN index_fault ELSE out.raised
    IN  IF err = "none"
        THEN [raised |-> "none", index_error |-> "none", results |-> out.results]
        ELSE IF FacadeCatches(err)
        THEN [raised |-> "none", index_error |-> err,
              results |-> IF ~Falsy(query) THEN SimpleSearch(query, source)
                          ELSE ListDatasets(source)]
        ELSE [raised |-> err, index_error |-> err, results |-> <<>>]

FacadeQueries == { <<"G", "S", "S">>, <<"g", "d", "p">>, <<"D", "a", "t", "a", "s", "e", "t">>, <<>> }

\* the errors of get_index(): the file cannot be opened, the directory
\* cannot be created
IndexFaults == { "none", "OperationalError", "PermissionError" }

----------------------------------------------------------------------------
(* Ingestion: ManualAdapter.ingest, GSSAdapter.ingest and
   index_dataset_from_manifest *)

\* number of ingestions the model makes
MaxIngests == 1

\* s.split(sep) for a one-character sep
RECURSIVE PySplitFrom(_, _, _, _, _)
PySplitFrom(s, sep, i, cur, acc) ==
    IF i > Len(s) THEN Append(acc, cur)
    ELSE IF s[i] = sep THEN PySplitFrom(s, sep, i + 1, <<>>, Append(acc, cur))
    ELSE PySplitFrom(s, sep, i + 1, Append(cur, s[i]), acc)

PySplit(s, sep) == PySplitFrom(s, sep, 1, <<>>, <<>>)

\* x or y, for str and None
PyOr(x, y) == IF Falsy(x) THEN y ELSE x

\* f"{manifest.get('source', 'unknown')} dataset"
DatasetTitle(source) ==
    (IF source = NULL THEN <<"N", "o", "n", "e">> ELSE source)
        \o <<" ", "d", "a", "t", "a", "s", "e", "t">>

\* the arguments index_dataset_from_manifest passes to index_dataset
FromManifestArgs(manifest, dataset_id) ==
    [dataset_id |-> PyOr(manifest.dataset_id, dataset_id),
     source |-> PyOr(manifest.source, PySplit(dataset_id, ":")[1]),
     title |-> DatasetTitle(manifest.source),
     description |-> NULL,
     license |-> manifest.license,
     access_mode |-> IF manifest.adapter = "manual" THEN "manual" ELSE "direct",
     variable_labels |-> manifest.variable_labels,
     value_labels |-> manifest.value_labels]

\* what the body of index_dataset_from_manifest raises: read_text on a
\* missing file, json.loads on a file that is not JSON, get_index() or a
\* statement of index_dataset (index_fault), .items() on a list
FromManifestError(files, manifest_path, index_fault) ==
    IF manifest_path \notin DOMAIN files THEN "FileNotFoundError"
    ELSE IF files[manifest_path].kind = "garbage" THEN "JSONDecodeError"
    ELSE IF index_fault # "none" THEN index_fault
    ELSE IF files[manifest_path].kind = "array_labels" THEN "AttributeError"
    ELSE "none"

\* the errors of get_index() and of the statements of index_dataset during
\* index_dataset_from_manifest
ManifestIndexFaults == { "none", "OperationalError" }

\* a handler for the errors of the index only
FromManifestCatches_IndexErrorOnly(err) == err = "SearchIndexError"

\* except Exception around the whole body
FromManifestCatches(err) == TRUE

\* registry.index_dataset_from_manifest(dataset_id, manifest_path): what it
\* raises, the error it met, and the tables afterwards
IndexDatasetFromManifest(d, fts5, files, dataset_id, manifest_path, now, index_fault) ==
    LET err == FromManifestError(files, manifest_path, index_fault)
    IN  IF err = "none"
        THEN [raised |-> "none", error |-> "none",
              db |-> IndexDataset(d, fts5,
                                  FromManifestArgs(files[manifest_path].data, dataset_id),
                                  now)]
        ELSE IF FromManifestCatches(err)
        THEN [raised |-> "none", error |-> err, db |-> d]
        ELSE [raised |-> err, error |-> err, db |-> d]

\* the ingest calls of the model: a file for manual:wvs and a file for
\* gss:gss-2022, with the labels read_table_with_meta finds in them
IngestInputs ==
    { [adapter |-> "manual", dataset_id |-> id_wvs,
       variable_labels |-> age_labels, value_labels |-> gender_values],
      [adapter |-> "manual", dataset_id |-> NULL,
       variable_labels |-> age_labels, value_labels |-> gender_values],
      [adapter |-> "gss", dataset_id |-> id_gss_2022,
       variable_labels |-> height_labels, value_labels |-> <<>>] }

\* the dataset id an ingestion works under
IngestDatasetId(inp) ==
    IF inp.adapter = "manual" THEN PyOr(inp.dataset_id, id_wvs)
    ELSE LET parts == PySplit(inp.dataset_id, ":")
         IN  src_gss \o <<":">> \o
             (IF Len(parts) > 1 THEN parts[2]
              ELSE <<"g", "s", "s", "-", "u", "n", "k", "n", "o", "w", "n">>)

\* the cache entry an ingestion writes to: get_dataset_dir(...)
IngestCacheDir(inp) ==
    IF inp.adapter = "manual"
    THEN ManifestPath(src_manual, StrReplace(IngestDatasetId(inp), ":", "_"), version_latest)
    ELSE LET parts == PySplit(inp.dataset_id, ":")
         IN  ManifestPath(src_gss,
                          IF Len(parts) > 1 THEN parts[2]
                          ELSE <<"g", "s", "s", "-", "u", "n", "k", "n", "o", "w", "n">>,
                          IF Len(parts) > 2 THEN parts[3] ELSE version_latest)

\* the IngestionManifest an ingestion writes
IngestManifest(inp) ==
    [kind |-> "json",
     data |-> [adapter |-> inp.adapter,
               dataset_id |-> IngestDatasetId(inp),
               source |-> IF inp.adapter = "manual" THEN src_manual ELSE src_gss,
               license |-> IF inp.adapter = "manual" THEN NULL ELSE lic_GSS,
               variable_labels |-> inp.variable_labels,
               value_labels |-> inp.value_labels]]

\* the cache directory after manifest_path.write_text
WriteManifest(files, inp) ==
    [p \in DOMAIN files \cup {IngestCacheDir(inp)} |->
        IF p = IngestCacheDir(inp) THEN IngestManifest(inp) ELSE files[p]]

----------------------------------------------------------------------------
(* resolve_adapter and api.load *)

\* the keys of _ADAPTERS, in the order of the dict
AdapterKeys ==
    << <<"e", "u", "r", "o", "s", "t", "a", "t">>, <<"m", "a", "n", "u", "a", "l">>, <<"s", "o", "e", "p">>, <<"g", "s", "s">>, <<"e", "s", "s">>, <<"i", "c", "p", "s", "r">>, <<"i", "s", "s", "p">>, <<"c", "s", "e", "s">>, <<"e", "v", "s">> >>

\* a lookup that also accepts an id that begins with a key
ResolveAdapter_Prefix(x) ==
    LET hits == {k \in Range(AdapterKeys) :
                    Len(k) <= Len(x) /\ SubSeq(x, 1, Len(k)) = k}
    IN  IF hits # {} THEN [raised |-> "none", adapter |-> CHOOSE k \in hits : TRUE]
        ELSE [raised |-> "AdapterNotFoundError", adapter |-> NULL]

\* registry.resolve_adapter(dataset_or_adapter_id): the key of the adapter it
\* returns, or the error it raises
ResolveAdapter(x) ==
    IF (\E i \in DOMAIN x : x[i] = ":") /\ PySplit(x, ":")[1] \in Range(AdapterKeys)
    THEN [raised |-> "none", adapter |-> PySplit(x, ":")[1]]
    ELSE IF x \in Range(AdapterKeys)
    THEN [raised |-> "none", adapter |-> x]
    ELSE [raised |-> "AdapterNotFoundError", adapter |-> NULL]

\* the ids the model resolves: keys, ids under a key, and near misses of a
\* key (another case, a prefix, a suffix, a longer word, an empty source)
ResolveInputs ==
    { <<"g", "s", "s">>, <<"m", "a", "n", "u", "a", "l">>, <<"s", "o", "e", "p">>, <<"g", "s", "s", ":", "g", "s", "s", "-", "2", "0", "2", "2">>, <<"m", "a", "n", "u", "a", "l", ":", "w", "v", "s">>, <<"g", "s", "s", ":", "a", ":", "b">>,
      <<"m", "a", "n", "u", "a", "l", ":">>, <<"t", "e", "s", "t", ":", "d", "a", "t", "a", "s", "e", "t", "1">>, <<"G", "S", "S", ":", "x">>, <<"G", "s", "s">>, <<"g", "s">>, <<"g", "s", ":", "x">>, <<"g", "s", "s", "x">>,
      <<"g", "s", "s", "x", ":", "1">>, <<"x", "g", "s", "s">>, <<"x", "g", "s", "s", ":", "1">>, <<":", "g", "s", "s">>, <<":">>, <<>> }

\* the adapter names api.load accepts without a colon
LoadAdapterNames ==
    << <<"m", "a", "n", "u", "a", "l">>, <<"e", "u", "r", "o", "s", "t", "a", "t">>, <<"s", "o", "e", "p">>, <<"g", "s", "s">>, <<"e", "s", "s">>, <<"i", "c", "p", "s", "r">>, <<"i", "s", "s", "p">>, <<"c", "s", "e", "s">>, <<"e", "v", "s">> >>

\* what adapter.load raises: the manual adapter has no load, the others fail
\* when the dataset cannot be fetched or read (load_fault)
AdapterLoadError(adapter, load_fault) ==
    IF adapter = src_manual THEN "NotImplementedError"
    ELSE IF load_fault THEN "FileNotFoundError"
    ELSE "none"

\* the language api.load continues with: a code that is not two characters
\* long is dropped with a warning
LoadLanguage(language) ==
    IF language # NULL /\ Len(language) # 2 THEN NULL ELSE language

\* a load that lets the errors of its optional steps through
LoadCatches_Nothing(err) == FALSE

\* except Exception around _apply_i18n_labels and around the validation
LoadCatches(err) == TRUE

\* api.load(dataset_id, language=..., validate=...): the error it raises,
\* whether it got as far as resolve_adapter and adapter.load, and what it
\* did to the table it returns
Load(dataset_id, language, validate, load_fault, i18n_fault, validate_fault) ==
    LET none == [raised |-> "none", resolve_called |-> FALSE, load_called |-> FALSE,
                 returned |-> FALSE, translated |-> FALSE, quality_report |-> FALSE]
    IN  IF Falsy(dataset_id)
        THEN [none EXCEPT !.raised = "ValueError"]
        ELSE IF (\A i \in DOMAIN dataset_id : dataset_id[i] # ":")
                /\ dataset_id \notin Range(LoadAdapterNames)
        THEN [none EXCEPT !.raised = "ValueError"]
        ELSE IF ResolveAdapter(dataset_id).raised # "none"
        THEN [none EXCEPT !.raised = "DatasetNotFoundError", !.resolve_called = TRUE]
        ELSE IF AdapterLoadError(ResolveAdapter(dataset_id).adapter, load_fault) # "none"
        THEN [none EXCEPT !.raised = "DatasetNotFoundError", !.resolve_called = TRUE,
                          !.load_called = TRUE]
        ELSE IF ~Falsy(LoadLanguage(language)) /\ i18n_fault /\ ~LoadCatches("I18nError")
        THEN [none EXCEPT !.raised = "I18nError", !.resolve_called = TRUE,
                          !.load_called = TRUE]
        ELSE IF validate /\ validate_fault /\ ~LoadCatches("ValidationError")
        THEN [none EXCEPT !.raised = "ValidationError", !.resolve_called = TRUE,
                          !.load_called = TRUE]
        ELSE [raised |-> "none", resolve_called |-> TRUE, load_called |-> TRUE,
              returned |-> TRUE,
              translated |-> ~Falsy(LoadLanguage(language)) /\ ~i18n_fault,
              quality_report |-> validate /\ ~validate_fault]

\* the language arguments of the model: none, a code, a code of the wrong
\* length, the empty string
Languages == { NULL, <<"d", "e">>, <<"d", "e", "u">>, <<>> }

----------------------------------------------------------------------------
(* The HTTP server *)

\* results[:limit] for limit >= 1, which Query(100, ge=1, le=1000) enforces
PySlice(s, limit) == SubSeq(s, 1, Min(limit, Len(s)))

\* GET /search?q=&source=&variable=&limit=
HttpSearch(d, fts5, q, source, variable, limit, index_fault, fault, retry_fault, rank) ==
    LET out == IF ~Falsy(variable)
               THEN SearchDatasetsAdvanced(d, fts5, q, source, variable, index_fault, fault)
               ELSE SearchDatasets(d, fts5, q, source, TRUE, index_fault, fault,
                                   retry_fault, rank)
    IN  IF out.raised # "none"
        THEN [status |-> 500, body |-> <<>>, results |-> <<>>, index_error |-> out.index_error]
        ELSE [status |-> 200, body |-> PySlice(out.results, limit),
              results |-> out.results, index_error |-> out.index_error]

\* except Exception, of which HTTPException is a subclass
InfoCatches(err) == TRUE

\* GET /datasets/{dataset_id}/info: the whole body, the raise of the 404
\* included, is inside try/except Exception, which answers 500
HttpInfo(d, dataset_id, index_fault) ==
    LET info == GetDatasetInfo(d, dataset_id)
        err == IF index_fault # "none" THEN index_fault
               ELSE IF ~info.found THEN "HTTPException"
               ELSE "none"
    IN  IF err = "none" THEN [status |-> 200, info |-> info]
        ELSE IF InfoCatches(err) THEN [status |-> 500, info |-> [found |-> FALSE]]
        ELSE [status |-> 404, info |-> [found |-> FALSE]]

----------------------------------------------------------------------------
(* download_file under backoff.on_exception *)

\* max_tries of the decorator
max_tries == 4

\* the exceptions of requests, all subclasses of requests.RequestException
RequestExceptions == { "ConnectionError", "Timeout", "HTTPError" }

\* what one attempt meets: the request succeeds, requests raises, or the
\* destination file cannot be written
AttemptOutcomes == { "ok" } \cup RequestExceptions \cup { "OSError" }

\* what one call of the body of download_file raises: every except clause
\* of the body raises DownloadError from what it caught
BodyRaises(outcome) == IF outcome = "ok" THEN "none" ELSE "DownloadError"

\* the exceptions backoff.on_exception retries on: instances of
\* requests.RequestException, which DownloadError (a SocDataError) is not
BackoffRetriesOn(err) == err \in RequestExceptions

\* the decorated download_file: the calls of the body backoff makes, from
\* call number tries on, over the outcomes the attempts would meet
RECURSIVE DownloadFileFrom(_, _)
DownloadFileFrom(outcomes, tries) ==
    LET err == BodyRaises(outcomes[tries])
    IN  IF err = "none"
        THEN [raised |-> "none", returned |-> TRUE, attempts |-> tries]
        ELSE IF BackoffRetriesOn(err) /\ tries < max_tries
        THEN DownloadFileFrom(outcomes, tries + 1)
        ELSE [raised |-> err, returned |-> FALSE, attempts |-> tries]

DownloadFile(outcomes) == DownloadFileFrom(outcomes, 1)

----------------------------------------------------------------------------
(* CacheManager: time-to-live bookkeeping of cached datasets *)

\* the latest value the clock takes
MaxTime == 4

\* the values of config.cache_ttl_hours a configuration may hold, in hours
\* of the same clock
TTLs == {1, 2}

\* the (source, dataset, version) triples the callers pass
CacheTriples == {<<<<"g", "s", "s">>, <<"g", "s", "s", "-", "2", "0", "2", "2">>, <<"l", "a", "t", "e", "s", "t">>>>,
                 <<<<"m", "a", "n", "u", "a", "l">>, <<"w", "v", "s">>, <<"l", "a", "t", "e", "s", "t">>>>}

\* the sizes the callers pass to mark_cached, as json.dump writes them
CacheSizes == {NULL, <<"1", "0", "2", "4">>}

\* a CacheManager with no metadata file
NoMetadata == [k \in {} |-> [cached_at |-> 0, size_bytes |-> NULL]]

_get_cache_key(source, dataset, version) ==
    source \o <<":">> \o dataset \o <<":">> \o version

CacheKeys == {_get_cache_key(t[1], t[2], t[3]) : t \in CacheTriples}

\* is_valid at time now
is_valid(md, ttl_hours, now, cache_key) ==
    IF cache_key \notin DOMAIN md
    THEN FALSE
    ELSE LET age == now - md[cache_key].cached_at
         IN  age < ttl_hours

\* the metadata after mark_cached
mark_cached(md, now, cache_key, size_bytes) ==
    [k \in DOMAIN md \cup {cache_key} |->
        IF k = cache_key
        THEN [cached_at |-> now, size_bytes |-> size_bytes]
        ELSE md[k]]

invalidate_All(md, cache_key) == NoMetadata

\* the metadata after invalidate
invalidate(md, cache_key) ==
    IF cache_key \in DOMAIN md
    THEN [k \in DOMAIN md \ {cache_key} |-> md[k]]
    ELSE md

\* cleanup_expired: the metadata it leaves and the count it returns
cleanup_expired(md, ttl_hours, now) ==
    LET cutoff == now - ttl_hours
        keys_to_remove == {k \in DOMAIN md : md[k].cached_at < cutoff}
    IN  [metadata |-> [k \in DOMAIN md \ keys_to_remove |-> md[k]],
         removed |-> Cardinality(keys_to_remove)]

----------------------------------------------------------------------------
(* Two processes inside index_dataset on the same catalog file *)

Procs == {1, 2}

\* the two calls: any two of the model's calls for one and the same id
ConcurrentCalls ==
    {c \in UpsertInputs \X UpsertInputs : c[1].dataset_id = c[2].dataset_id}

\* a process is between its first write statement and its commit: it holds
\* the write lock of the file, and SQLite makes any other writer wait
HoldsWriteLock(ps, p) == ps[p].pc = "written"

\* the INSERT of a process that saw no row, run when a row of the id has been
\* committed meanwhile, violates the PRIMARY KEY of datasets
InsertConflicts(d, proc) ==
    ~proc.exists /\ SelectRow(d, proc.args.dataset_id) # {}

----------------------------------------------------------------------------
(* The operations *)

Init ==
    /\ engine_fts5 \in BOOLEAN
    /\ fts5_available = engine_fts5
    /\ db = EmptyDb
    /\ clock = 1
    /\ manifests = <<>>
    /\ processed = {}
    /\ ingests = 0
    /\ metadata = NoMetadata
    /\ cache_ttl_hours = DefaultTtlHours
    /\ procs = NoProcs
    /\ ops = 0
    /\ last_write = "none"
    /\ indexed = <<>>
    /\ ret = Idle

\* the same with manifests in the cache directory
InitCache ==
    /\ engine_fts5 \in BOOLEAN
    /\ fts5_available = engine_fts5
    /\ db = EmptyDb
    /\ clock = 1
    /\ manifests \in CacheStates
    /\ processed = {p \in DOMAIN manifests : manifests[p].kind = "json"}
    /\ ingests = 0
    /\ metadata = NoMetadata
    /\ cache_ttl_hours = DefaultTtlHours
    /\ procs = NoProcs
    /\ ops = 0
    /\ last_write = "none"
    /\ indexed = <<>>
    /\ ret = Idle

\* index.index_dataset(**a)
Upsert ==
    /\ ret = Idle
    /\ ops < MaxOps
    /\ \E a \in UpsertInputs :
          /\ db' = IndexDataset(db, fts5_available, a, clock)
          /\ indexed' = Record(indexed, a)
    /\ clock' = clock + 1
    /\ ops' = ops + 1
    /\ last_write' = "index_dataset"
    /\ UNCHANGED <<engine_fts5, fts5_available, manifests, processed, ingests, metadata, cache_ttl_hours, procs, ret>>

\* index.clear_index(): unlink the file, then _init_db, which probes again
ClearIndex ==
    /\ ret = Idle
    /\ ops < MaxOps
    /\ db' = ClearedDb(db)
    /\ fts5_available' = Fts5Probe(engine_fts5, FALSE)
    /\ indexed' = <<>>
    /\ ops' = ops + 1
    /\ last_write' = "clear_index"
    /\ UNCHANGED <<engine_fts5, clock, manifests, processed, ingests, metadata, cache_ttl_hours, procs, ret>>

\* index.rebuild_index(); ret keeps what the catalog held before.  fault_at
\* is the position of the dataset at which SQLite fails (0: nowhere)
Rebuild ==
    /\ ret = Idle
    /\ ops < MaxOps
    /\ \E fault_at \in 0..Len(ListDatasets(NULL)) :
          /\ db' = RebuildIndex(db, fts5_available, manifests, clock, fault_at)
          /\ indexed' = RecordRebuildFrom(indexed, manifests, 1,
                                           RebuildStops(manifests, fault_at))
          /\ last_write' = IF RebuildRaised(manifests, fault_at) = "none"
                           THEN "rebuild_index" ELSE "rebuild_index raised"
          /\ ret' = [op |-> "rebuild_index", before |-> db, previous |-> last_write,
                     raised |-> RebuildRaised(manifests, fault_at),
                     stop |-> RebuildStops(manifests, fault_at)]
    /\ clock' = clock + Len(ListDatasets(NULL))
    /\ ops' = ops + 1
    /\ UNCHANGED <<engine_fts5, fts5_available, manifests, processed, ingests, metadata, cache_ttl_hours, procs>>

\* index.get_dataset_info(dataset_id)
GetInfo ==
    /\ ret = Idle
    /\ \E dataset_id \in DatasetIds :
          ret' = [op |-> "get_dataset_info", dataset_id |-> dataset_id,
                  info |-> GetDatasetInfo(db, dataset_id)]
    /\ UNCHANGED <<engine_fts5, fts5_available, db, clock, manifests, processed, ingests, metadata, cache_ttl_hours, procs, ops, last_write, indexed>>

\* index.search(query, source, limit)
DoSearch ==
    /\ ret = Idle
    /\ \E query \in SearchQueries, source \in SourceFilters, limit \in Limits,
          fault \in Faults, retry_fault \in RetryFaults :
          /\ retry_fault # "none" => fault = "OperationalError"
          /\ \E rank \in Rankings(IF fts5_available
                                   THEN SearchRows(db, TRUE, query, source) ELSE {}) :
                ret' = [op |-> "search", query |-> query, source |-> source,
                        limit |-> limit, fault |-> fault,
                        out |-> Search(db, fts5_available, query, source, limit,
                                       fault, retry_fault, rank)]
    /\ UNCHANGED <<engine_fts5, fts5_available, db, clock, manifests, processed, ingests, metadata, cache_ttl_hours, procs, ops, last_write, indexed>>

\* index.search_advanced(query, source, variable_name, limit)
DoSearchAdvanced ==
    /\ ret = Idle
    /\ \E query \in AdvancedQueries, source \in SourceFilters,
          variable_name \in VariableNames, limit \in Limits,
          fault \in RetryFaults :
          ret' = [op |-> "search_advanced", query |-> query, source |-> source,
                  variable_name |-> variable_name, limit |-> limit, fault |-> fault,
                  out |-> SearchAdvanced(db, fts5_available, query, source,
                                         variable_name, limit, fault)]
    /\ UNCHANGED <<engine_fts5, fts5_available, db, clock, manifests, processed, ingests, metadata, cache_ttl_hours, procs, ops, last_write, indexed>>

\* registry.search_datasets(query, source, use_index)
DoSearchDatasets ==
    /\ ret = Idle
    /\ \E query \in FacadeQueries, source \in SourceFilters, use_index \in BOOLEAN,
          index_fault \in IndexFaults, fault \in Faults, retry_fault \in RetryFaults :
          /\ retry_fault # "none" => fault = "OperationalError"
          /\ index_fault # "none" => fault = "none"
          /\ ~use_index => index_fault = "none" /\ fault = "none"
          /\ \E rank \in Rankings(IF fts5_available
                                   THEN SearchRows(db, TRUE, query, source) ELSE {}) :
                ret' = [op |-> "search_datasets", query |-> query, source |-> source,
                        use_index |-> use_index,
                        out |-> SearchDatasets(db, fts5_available, query, source, use_index,
                                               index_fault, fault, retry_fault, rank)]
    /\ UNCHANGED <<engine_fts5, fts5_available, db, clock, manifests, processed, ingests, metadata, cache_ttl_hours, procs, ops, last_write, indexed>>

\* registry.search_datasets_advanced(query, source, variable_name)
DoSearchDatasetsAdvanced ==
    /\ ret = Idle
    /\ \E query \in AdvancedQueries, source \in SourceFilters,
          variable_name \in VariableNames,
          index_fault \in IndexFaults, fault \in RetryFaults :
          /\ index_fault # "none" => fault = "none"
          /\ ret' = [op |-> "search_datasets_advanced", query |-> query,
                     source |-> source, variable_name |-> variable_name,
                     out |-> SearchDatasetsAdvanced(db, fts5_available, query, source,
                                                    variable_name, index_fault, fault)]
    /\ UNCHANGED <<engine_fts5, fts5_available, db, clock, manifests, processed, ingests, metadata, cache_ttl_hours, procs, ops, last_write, indexed>>

\* adapter.ingest(dataset_id, file_path=...): read the file (a failure
\* raises before anything is written), write the manifest, write
\* processed/data.parquet (a failure is ignored), index from the manifest
\* (a failure is ignored)
Ingest ==
    /\ ret = Idle
    /\ ingests < MaxIngests
    /\ \E inp \in IngestInputs, read_fault \in BOOLEAN, parquet_fault \in BOOLEAN,
          index_fault \in ManifestIndexFaults :
          LET files == WriteManifest(manifests, inp)
              out == IndexDatasetFromManifest(db, fts5_available, files,
                                              IngestDatasetId(inp), IngestCacheDir(inp),
                                              clock, index_fault)
          IN  /\ read_fault => ~parquet_fault /\ index_fault = "none"
              /\ manifests' = IF read_fault THEN manifests ELSE files
              /\ processed' = IF read_fault \/ parquet_fault THEN processed
                              ELSE processed \cup {IngestCacheDir(inp)}
              /\ db' = IF read_fault THEN db ELSE out.db
              /\ indexed' = IF read_fault \/ out.error # "none" THEN indexed
                            ELSE Record(indexed,
                                        FromManifestArgs(IngestManifest(inp).data,
                                                         IngestDatasetId(inp)))
              /\ ret' = [op |-> "ingest", dataset_id |-> IngestDatasetId(inp),
                         cache_dir |-> IngestCacheDir(inp),
                         raised |-> IF read_fault THEN "FileNotFoundError" ELSE "none",
                         index_error |-> IF read_fault THEN "none" ELSE out.error]
    /\ clock' = clock + 1
    /\ ingests' = ingests + 1
    /\ last_write' = "ingest"
    /\ UNCHANGED <<engine_fts5, fts5_available, ops, metadata, cache_ttl_hours, procs>>

\* registry.index_dataset_from_manifest(dataset_id, manifest_path), called
\* on its own; ret keeps what the tables held before
IndexFromManifest ==
    /\ ret = Idle
    /\ ops < MaxOps
    /\ \E dataset_id \in {id_wvs, id_test},
          manifest_path \in DOMAIN manifests
                            \cup {ManifestPath(src_test, <<"m", "i", "s", "s", "i", "n", "g">>, version_latest)},
          index_fault \in ManifestIndexFaults :
          LET out == IndexDatasetFromManifest(db, fts5_available, manifests, dataset_id,
                                              manifest_path, clock, index_fault)
          IN  /\ db' = out.db
              /\ indexed' = IF out.error # "none" THEN indexed
                            ELSE Record(indexed,
                                        FromManifestArgs(manifests[manifest_path].data,
                                                         dataset_id))
              /\ ret' = [op |-> "index_dataset_from_manifest", dataset_id |-> dataset_id,
                         manifest_path |-> manifest_path, before |-> db,
                         raised |-> out.raised, error |-> out.error]
    /\ clock' = clock + 1
    /\ ops' = ops + 1
    /\ last_write' = "index_dataset_from_manifest"
    /\ UNCHANGED <<engine_fts5, fts5_available, manifests, processed, ingests, metadata, cache_ttl_hours, procs>>

\* registry.resolve_adapter(x)
DoResolve ==
    /\ ret = Idle
    /\ \E x \in ResolveInputs :
          ret' = [op |-> "resolve_adapter", x |-> x, out |-> ResolveAdapter(x)]
    /\ UNCHANGED <<engine_fts5, fts5_available, db, clock, manifests, processed, ingests, metadata, cache_ttl_hours, procs, ops, last_write, indexed>>

\* api.load(dataset_id, language=language, validate=validate)
DoLoad ==
    /\ ret = Idle
    /\ \E dataset_id \in ResolveInputs \cup {NULL}, language \in Languages,
          validate \in BOOLEAN, load_fault \in BOOLEAN, i18n_fault \in BOOLEAN,
          validate_fault \in BOOLEAN :
          ret' = [op |-> "load", dataset_id |-> dataset_id, language |-> language,
                  validate |-> validate, load_fault |-> load_fault,
                  i18n_fault |-> i18n_fault, validate_fault |-> validate_fault,
                  out |-> Load(dataset_id, language, validate, load_fault,
                               i18n_fault, validate_fault)]
    /\ UNCHANGED <<engine_fts5, fts5_available, db, clock, manifests, processed, ingests, metadata, cache_ttl_hours, procs, ops, last_write, indexed>>

\* GET /search
DoHttpSearch ==
    /\ ret = Idle
    /\ \E q \in FacadeQueries, source \in SourceFilters, variable \in VariableNames,
          limit \in Limits, index_fault \in IndexFaults, fault \in RetryFaults :
          /\ index_fault # "none" => fault = "none"
          /\ \E rank \in Rankings(IF fts5_available
                                   THEN SearchRows(db, TRUE, q, source) ELSE {}) :
                ret' = [op |-> "http_search", q |-> q, source |-> source,
                        variable |-> variable, limit |-> limit,
                        out |-> HttpSearch(db, fts5_available, q, source, variable, limit,
                                           index_fault, fault, "none", rank)]
    /\ UNCHANGED <<engine_fts5, fts5_available, db, clock, manifests, processed, ingests, metadata, cache_ttl_hours, procs, ops, last_write, indexed>>

\* GET /datasets/{dataset_id}/info
DoHttpInfo ==
    /\ ret = Idle
    /\ \E dataset_id \in DatasetIds, index_fault \in IndexFaults :
          ret' = [op |-> "http_info", dataset_id |-> dataset_id,
                  index_fault |-> index_fault,
                  out |-> HttpInfo(db, dataset_id, index_fault)]
    /\ UNCHANGED <<engine_fts5, fts5_available, db, clock, manifests, processed, ingests, metadata, cache_ttl_hours, procs, ops, last_write, indexed>>

\* download_file(url, dest); outcomes[i] is what the i-th request would meet
DoDownload ==
    /\ ret = Idle
    /\ \E outcomes \in [1..max_tries -> AttemptOutcomes] :
          ret' = [op |-> "download_file", outcomes |-> outcomes,
                  out |-> DownloadFile(outcomes)]
    /\ UNCHANGED <<engine_fts5, fts5_available, db, clock, manifests, processed, ingests, metadata, cache_ttl_hours, procs, ops, last_write, indexed>>

\* a CacheManager over an empty cache, under some configured TTL
InitCacheManager ==
    /\ engine_fts5 \in BOOLEAN
    /\ fts5_available = engine_fts5
    /\ db = EmptyDb
    /\ clock = 1
    /\ manifests = <<>>
    /\ processed = {}
    /\ ingests = 0
    /\ metadata = NoMetadata
    /\ cache_ttl_hours \in TTLs
    /\ procs = NoProcs
    /\ ops = 0
    /\ last_write = "none"
    /\ indexed = <<>>
    /\ ret = Idle

\* datetime.now() moves on
TimePasses ==
    /\ clock < MaxTime
    /\ clock' = clock + 1
    /\ UNCHANGED <<engine_fts5, fts5_available, db, manifests, processed, ingests, metadata, cache_ttl_hours, procs, ops, last_write, indexed, ret>>

MarkCached ==
    /\ ret = Idle
    /\ \E t \in CacheTriples, size_bytes \in CacheSizes :
          LET cache_key == _get_cache_key(t[1], t[2], t[3])
          IN  /\ metadata' = mark_cached(metadata, clock, cache_key, size_bytes)
              /\ ret' = [op |-> "mark_cached", key |-> cache_key]
    /\ UNCHANGED <<engine_fts5, fts5_available, db, clock, manifests, processed, ingests, cache_ttl_hours, procs, ops, last_write, indexed>>

Invalidate ==
    /\ ret = Idle
    /\ \E t \in CacheTriples :
          LET cache_key == _get_cache_key(t[1], t[2], t[3])
          IN  /\ metadata' = invalidate(metadata, cache_key)
              /\ ret' = [op |-> "invalidate", key |-> cache_key]
    /\ UNCHANGED <<engine_fts5, fts5_available, db, clock, manifests, processed, ingests, cache_ttl_hours, procs, ops, last_write, indexed>>

IsValid ==
    /\ ret = Idle
    /\ \E t \in CacheTriples :
          LET cache_key == _get_cache_key(t[1], t[2], t[3])
          IN  ret' = [op |-> "is_valid", key |-> cache_key,
                      out |-> is_valid(metadata, cache_ttl_hours, clock, cache_key)]
    /\ UNCHANGED <<engine_fts5, fts5_available, db, clock, manifests, processed, ingests, metadata, cache_ttl_hours, procs, ops, last_write, indexed>>

CleanupExpired ==
    /\ ret = Idle
    /\ LET r == cleanup_expired(metadata, cache_ttl_hours, clock)
       IN  /\ metadata' = r.metadata
           /\ ret' = [op |-> "cleanup_expired", before |-> metadata,
                      out |-> r.removed]
    /\ UNCHANGED <<engine_fts5, fts5_available, db, clock, manifests, processed, ingests, cache_ttl_hours, procs, ops, last_write, indexed>>

\* SearchIndex(index_path) over a cache directory, opened on an existing
\* empty catalog file that another connection may hold locked meanwhile
InitProbed ==
    /\ engine_fts5 \in BOOLEAN
    /\ \E locked \in BOOLEAN : fts5_available = Fts5Probe(engine_fts5, locked)
    /\ db = EmptyDb
    /\ clock = 1
    /\ manifests \in CacheStates
    /\ processed = {p \in DOMAIN manifests : manifests[p].kind = "json"}
    /\ ingests = 0
    /\ metadata = NoMetadata
    /\ cache_ttl_hours = DefaultTtlHours
    /\ procs = NoProcs
    /\ ops = 0
    /\ last_write = "none"
    /\ indexed = <<>>
    /\ ret = Idle

\* SearchIndex(index_path) opened on a catalog that one index_dataset has
\* written to before
InitIndexed ==
    /\ engine_fts5 \in BOOLEAN
    /\ fts5_available = engine_fts5
    /\ \E a \in UpsertInputs :
          /\ db = IndexDataset(EmptyDb, engine_fts5, a, 1)
          /\ indexed = Record(<<>>, a)
    /\ clock = 2
    /\ manifests = <<>>
    /\ processed = {}
    /\ ingests = 0
    /\ metadata = NoMetadata
    /\ cache_ttl_hours = DefaultTtlHours
    /\ procs = NoProcs
    /\ ops = 0
    /\ last_write = "index_dataset"
    /\ ret = Idle

\* index.index_dataset(...) in which a statement raises; no other writer is
\* served while the abandoned connection holds its lock, which ends here
\* with the call
UpsertFails ==
    /\ ret = Idle
    /\ ops < MaxOps
    /\ \E a \in UpsertInputs :
          \E fault_step \in IndexDatasetSteps(a) :
             /\ db' = Abandoned(db, IndexDatasetUpTo(db, fts5_available, a, clock, fault_step))
             /\ ret' = [op |-> "index_dataset", args |-> a, before |-> db,
                        fault_step |-> fault_step,
                        raised |-> IndexDatasetError(a, fault_step)]
    /\ clock' = clock + 1
    /\ ops' = ops + 1
    /\ last_write' = "index_dataset raised"
    /\ UNCHANGED <<engine_fts5, fts5_available, manifests, processed, ingests, metadata, cache_ttl_hours, procs, indexed>>

\* two processes enter index_dataset for the same id, on a new catalog or on
\* one that holds the id already
InitConcurrent ==
    /\ engine_fts5 \in BOOLEAN
    /\ fts5_available = engine_fts5
    /\ \E c \in ConcurrentCalls :
          /\ procs = [p \in Procs |->
                        [pc |-> "start", args |-> c[p], exists |-> FALSE,
                         now |-> 0, tx |-> EmptyDb, raised |-> "none"]]
          /\ \E present \in BOOLEAN, a \in UpsertInputs :
                /\ a.dataset_id = c[1].dataset_id
                /\ db = IF present THEN IndexDataset(EmptyDb, engine_fts5, a, 1)
                        ELSE EmptyDb
                /\ indexed = IF present THEN Record(<<>>, a) ELSE <<>>
                /\ last_write = IF present THEN "index_dataset" ELSE "none"
    /\ clock = 2
    /\ manifests = <<>>
    /\ processed = {}
    /\ ingests = 0
    /\ metadata = NoMetadata
    /\ cache_ttl_hours = DefaultTtlHours
    /\ ops = 0
    /\ ret = Idle

\* a process connects, takes the time and runs SELECT rowid ... WHERE id = ?
CheckExists ==
    /\ \E p \in Procs :
          /\ procs[p].pc = "start"
          /\ procs' = [procs EXCEPT ![p].pc = "checked",
                                    ![p].exists = SelectRow(db, procs[p].args.dataset_id) # {},
                                    ![p].now = clock]
    /\ clock' = clock + 1
    /\ UNCHANGED <<engine_fts5, fts5_available, db, manifests, processed, ingests, metadata, cache_ttl_hours, ops, last_write, indexed, ret>>

\* a process runs its write statements in its transaction, once no other
\* process holds the write lock; its INSERT may raise IntegrityError
WriteStatements ==
    /\ \E p \in Procs :
          /\ procs[p].pc = "checked"
          /\ \A q \in Procs \ {p} : ~HoldsWriteLock(procs, q)
          /\ procs' =
                IF InsertConflicts(db, procs[p])
                THEN [procs EXCEPT ![p].pc = "failed", ![p].raised = "IntegrityError"]
                ELSE [procs EXCEPT ![p].pc = "written",
                                   ![p].tx = IndexDataset(db, fts5_available,
                                                          procs[p].args, procs[p].now)]
    /\ UNCHANGED <<engine_fts5, fts5_available, db, clock, manifests, processed, ingests, metadata, cache_ttl_hours, ops, last_write, indexed, ret>>

\* conn.commit() and conn.close() of a process
Commit ==
    /\ \E p \in Procs :
          /\ procs[p].pc = "written"
          /\ db' = procs[p].tx
          /\ indexed' = Record(indexed, procs[p].args)
          /\ procs' = [procs EXCEPT ![p].pc = "done"]
    /\ last_write' = "index_dataset"
    /\ UNCHANGED <<engine_fts5, fts5_available, clock, manifests, processed, ingests, metadata, cache_ttl_hours, ops, ret>>

\* the caller takes the result
Return ==
    /\ ret # Idle
    /\ ret' = Idle
    /\ UNCHANGED <<engine_fts5, fts5_available, db, clock, manifests, processed, ingests, metadata, cache_ttl_hours, procs, ops, last_write, indexed>>

\* the index on its own
Next == Upsert \/ ClearIndex \/ GetInfo \/ DoSearch \/ DoSearchAdvanced \/ Return

Spec == Init /\ [][Next]_vars

\* the index and rebuild_index over a cache directory
NextRebuild == Upsert \/ ClearIndex \/ Rebuild \/ GetInfo \/ Return

SpecRebuild == InitCache /\ [][NextRebuild]_vars

\* the search facade over the index
NextFacade == Upsert \/ Rebuild \/ DoSearchDatasets \/ DoSearchDatasetsAdvanced \/ Return

SpecFacade == Init /\ [][NextFacade]_vars

\* ingestion into a cache directory, the index, and its recovery
NextIngest == Ingest \/ IndexFromManifest \/ ClearIndex \/ Rebuild \/ Return

SpecIngest == InitCache /\ [][NextIngest]_vars

\* the registry and the loading API
NextApi == DoResolve \/ DoLoad \/ Return

SpecApi == Init /\ [][NextApi]_vars

\* the index behind the HTTP server
NextServer == Upsert \/ DoSearch \/ DoSearchAdvanced \/ DoHttpSearch \/ DoHttpInfo \/ Return

SpecServer == Init /\ [][NextServer]_vars

\* downloads
NextDownload == DoDownload \/ Return

SpecDownload == Init /\ [][NextDownload]_vars

\* the cache manager
NextCacheManager ==
    TimePasses \/ MarkCached \/ Invalidate \/ IsValid \/ CleanupExpired \/ Return

SpecCacheManager == InitCacheManager /\ [][NextCacheManager]_vars

\* the index of an instance whose probe may have met a locked file
SpecProbed == InitProbed /\ [][NextRebuild]_vars

\* upserts into a catalog that holds a record already
NextIndexed == Upsert \/ GetInfo \/ Return

SpecIndexed == InitIndexed /\ [][NextIndexed]_vars

\* upserts that may fail part-way
NextFaulty == Upsert \/ UpsertFails \/ GetInfo \/ Return

SpecFaulty == InitIndexed /\ [][NextFaulty]_vars

\* two concurrent upserts of one id
NextConcurrent == CheckExists \/ WriteStatements \/ Commit

SpecConcurrent == InitConcurrent /\ [][NextConcurrent]_vars

----------------------------------------------------------------------------
(* Properties of index_dataset and get_dataset_info *)

\* the (variable name, label) pairs stored for a dataset
StoredLabels(dataset_id) ==
    { <<l.variable_name, l.label>> :
      l \in {x \in db.variable_labels : x.dataset_id = dataset_id} }

\* C1: after any sequence of index_dataset calls the catalog holds exactly
\* one record per dataset id indexed since the last clear, and the variable
\* labels stored for an id are exactly the mapping of its most recent call:
\* no variable of an earlier call survives, and no label row is orphaned.
C1_OneRecordLatestLabels ==
    /\ {r.id : r \in db.datasets} = DOMAIN indexed
    /\ \A dataset_id \in DOMAIN indexed :
          /\ Cardinality(SelectRow(db, dataset_id)) = 1
          /\ StoredLabels(dataset_id) = Range(LastArgs(dataset_id).variable_labels)
    /\ \A l \in db.variable_labels : l.dataset_id \in DOMAIN indexed

\* an id indexed twice, first with the age labels and then with the height
\* labels
C1_Witness ==
    /\ id_gss_2022 \in DOMAIN indexed
    /\ Len(indexed[id_gss_2022]) = 2
    /\ indexed[id_gss_2022][1].variable_labels = age_labels
    /\ indexed[id_gss_2022][2].variable_labels = height_labels
    /\ StoredLabels(id_gss_2022) = Range(height_labels)

\* C2: read-your-writes: get_dataset_info(id) on an id that was indexed
\* returns the title, description, license, access mode and variable labels
\* of the most recent index_dataset for that id, new or already present.
C2_ReadYourWrites ==
    (ret.op = "get_dataset_info" /\ ret.dataset_id \in DOMAIN indexed) =>
        /\ ret.info.found
        /\ ret.info.id = ret.dataset_id
        /\ ret.info.title = LastArgs(ret.dataset_id).title
        /\ ret.info.description = LastArgs(ret.dataset_id).description
        /\ ret.info.license = LastArgs(ret.dataset_id).license
        /\ ret.info.access_mode = LastArgs(ret.dataset_id).access_mode
        /\ ret.info.variable_labels = Range(LastArgs(ret.dataset_id).variable_labels)

\* get_dataset_info of an id whose second index_dataset changed every field
C2_Witness ==
    /\ ret.op = "get_dataset_info"
    /\ ret.dataset_id = id_gss_2022
    /\ ret.dataset_id \in DOMAIN indexed
    /\ Len(indexed[id_gss_2022]) = 2
    /\ indexed[id_gss_2022][1].license = NULL
    /\ ret.info.found
    /\ ret.info.license = lic_MIT
    /\ ret.info.access_mode = "manual"

----------------------------------------------------------------------------
(* Properties of search *)

\* q is one of the blank-separated words of the text
IsWordOf(q, text) == q \in Range(Words(text))

\* the text contains q as a substring, whatever the case
ContainsCI(text, q) == text # NULL /\ PyIn(PyLower(q), PyLower(text))

\* the text contains q as a substring, the case of ASCII letters ignored
AsciiLowerStr(s) == [i \in 1..Len(s) |-> AsciiLower(s[i])]

ContainsAsciiCI(text, q) == text # NULL /\ PyIn(AsciiLowerStr(q), AsciiLowerStr(text))

\* the ids of a result list
ResultIds(results) == {results[i].id : i \in DOMAIN results}

\* how often an id occurs in a result list
Occurrences(results, dataset_id) ==
    Cardinality({i \in DOMAIN results : results[i].id = dataset_id})

\* search(q): no source filter, the default limit, no fault of the engine
IsPlainSearch ==
    /\ ret.op = "search"
    /\ ret.source = NULL
    /\ ret.limit = DefaultLimit
    /\ ret.fault = "none"

\* C3 (first half): in either capability state, search(q) for a word q of
\* the title of an indexed dataset returns that dataset's id exactly once.
C3_SearchFindsTitleWord ==
    IsPlainSearch =>
        \A dataset_id \in DOMAIN indexed :
            IsWordOf(ret.query, LastArgs(dataset_id).title) =>
                Occurrences(ret.out.results, dataset_id) = 1

\* C4 as claimed: without FTS5 and with a limit not below the size of the
\* catalog, search(q) returns exactly the records whose title, id or
\* description contains q case-insensitively, and of these the ones of the
\* source when a source filter is given.
C4_LikeIsSubstring ==
    (ret.op = "search" /\ ~fts5_available /\ ret.fault = "none"
        /\ ret.limit >= Cardinality(db.datasets)) =>
        /\ ResultIds(ret.out.results) =
              {r.id : r \in {x \in db.datasets :
                  /\ \/ ContainsCI(x.title, ret.query)
                     \/ ContainsCI(x.id, ret.query)
                     \/ ContainsCI(x.description, ret.query)
                  /\ ~Falsy(ret.source) => x.source = ret.source}}
        /\ Len(ret.out.results) = Cardinality(ResultIds(ret.out.results))

\* q has no LIKE wildcard
NoWildcard(q) == \A i \in 1..Len(q) : q[i] \notin {"%", "_"}

\* C4 amended: the same for a query without the LIKE wildcards % and _, with
\* the case of ASCII letters ignored only.
C4_LikeIsAsciiSubstring ==
    (ret.op = "search" /\ ~fts5_available /\ ret.fault = "none"
        /\ ret.limit >= Cardinality(db.datasets)
        /\ NoWildcard(ret.query)) =>
        /\ ResultIds(ret.out.results) =
              {r.id : r \in {x \in db.datasets :
                  /\ \/ ContainsAsciiCI(x.title, ret.query)
                     \/ ContainsAsciiCI(x.id, ret.query)
                     \/ ContainsAsciiCI(x.description, ret.query)
                  /\ ~Falsy(ret.source) => x.source = ret.source}}
        /\ Len(ret.out.results) = Cardinality(ResultIds(ret.out.results))

\* a search without FTS5 that the description alone decides: it returns one
\* of two records, the one whose description contains the query
C4_Witness ==
    /\ ret.op = "search" /\ ~fts5_available /\ ret.fault = "none"
    /\ ret.limit >= Cardinality(db.datasets)
    /\ ret.query = <<"a", "g", "e">>
    /\ ret.source = src_gss
    /\ Cardinality(db.datasets) = 2
    /\ ResultIds(ret.out.results) = {id_gss_2022}

----------------------------------------------------------------------------
(* Properties of search_advanced *)

\* the shadow row an index_dataset with arguments a is meant to leave
CurrentText(a) == CHOOSE f \in InsertDatasetsFts({}, 0, a) : TRUE

\* the query matches the record as it stands: the full-text match of its
\* current fields with FTS5, the LIKE match of title, id, description without
QueryMatchesRecord(dataset_id, query) ==
    IF fts5_available
    THEN Fts5Match(CurrentText(LastArgs(dataset_id)), query)
    ELSE \E r \in SelectRow(db, dataset_id) : LikeCond(r, query)

\* C5: search_advanced returns only records that satisfy every supplied
\* predicate: the query matches the record, the source is the record's, and
\* some variable name of the record's current labels contains variable_name.
C5_AdvancedConjunction ==
    (ret.op = "search_advanced" /\ ret.out.raised = "none") =>
        \A i \in DOMAIN ret.out.results :
            LET dataset_id == ret.out.results[i].id
            IN  /\ dataset_id \in DOMAIN indexed
                /\ ~Falsy(ret.query) => QueryMatchesRecord(dataset_id, ret.query)
                /\ ~Falsy(ret.source) =>
                      \E r \in SelectRow(db, dataset_id) : r.source = ret.source
                /\ ~Falsy(ret.variable_name) =>
                      \E p \in Range(LastArgs(dataset_id).variable_labels) :
                          PyIn(ret.variable_name, p[1])

\* the result of the call of ret with its arguments replaced
AdvancedIds(query, source, variable_name) ==
    ResultIds(SearchAdvanced(db, fts5_available, query, source, variable_name,
                             ret.limit, "none").results)

\* C6 as claimed: for every limit, search_advanced with one of the supplied
\* predicates omitted returns a superset of the result with it supplied.
C6_OmitWidens ==
    (ret.op = "search_advanced" /\ ret.out.raised = "none") =>
        /\ ResultIds(ret.out.results) \subseteq
              AdvancedIds(NULL, ret.source, ret.variable_name)
        /\ ResultIds(ret.out.results) \subseteq
              AdvancedIds(ret.query, NULL, ret.variable_name)
        /\ ResultIds(ret.out.results) \subseteq
              AdvancedIds(ret.query, ret.source, NULL)

\* the number of records the statement selects before LIMIT
AdvancedCount(query, source, variable_name) ==
    Cardinality(AdvancedRows(db, fts5_available, query, source, variable_name))

\* C6 amended: the same whenever the limit is not smaller than the number of
\* records that satisfy the remaining predicates, so that the wider result is
\* not truncated.
C6_OmitWidensUntruncated ==
    (ret.op = "search_advanced" /\ ret.out.raised = "none") =>
        /\ ret.limit >= AdvancedCount(NULL, ret.source, ret.variable_name) =>
              ResultIds(ret.out.results) \subseteq
                  AdvancedIds(NULL, ret.source, ret.variable_name)
        /\ ret.limit >= AdvancedCount(ret.query, NULL, ret.variable_name) =>
              ResultIds(ret.out.results) \subseteq
                  AdvancedIds(ret.query, NULL, ret.variable_name)
        /\ ret.limit >= AdvancedCount(ret.query, ret.source, NULL) =>
              ResultIds(ret.out.results) \subseteq
                  AdvancedIds(ret.query, ret.source, NULL)

\* a search_advanced with a query and a source whose result is not empty
\* and strictly smaller than the result without the source
C6_Witness ==
    /\ ret.op = "search_advanced" /\ ret.out.raised = "none"
    /\ ~Falsy(ret.query) /\ ret.source = src_gss
    /\ ret.limit >= AdvancedCount(ret.query, NULL, ret.variable_name)
    /\ ret.out.results # <<>>
    /\ ResultIds(ret.out.results) # AdvancedIds(ret.query, NULL, ret.variable_name)

\* C7 (for search_advanced): an error of the engine while the query executes
\* triggers exactly one retry, and reaches the caller only if the retry
\* fails as well.
C7_AdvancedRetriesOnce ==
    (ret.op = "search_advanced"
        /\ ExecuteError(fts5_available /\ ~Falsy(ret.query), ret.query, ret.fault) # "none") =>
        ret.out.executes = 2

----------------------------------------------------------------------------
(* Properties of the search facade *)

\* the declared datasets of the source whose title or id contains the query,
\* whatever the case; every one of them when there is no query
LinearScan(query, source) ==
    LET Holds(ds) == \/ Falsy(query)
                     \/ ContainsCI(ds.title, query)
                     \/ ContainsCI(ds.id, query)
    IN  SelectSeq(ListDatasets(source), Holds)

\* C8: the facade never raises because the index failed: whenever
\* get_index() or the query of the index raises, search_datasets and
\* search_datasets_advanced return the linear scan over list_datasets(source).
C8_FacadeFallsBack ==
    (ret.op \in {"search_datasets", "search_datasets_advanced"}) =>
        /\ ret.out.raised = "none"
        /\ ret.out.index_error # "none" =>
              ret.out.results = LinearScan(ret.query, ret.source)

\* the index has a record, its query fails with an error that is not an
\* OperationalError, and the facade answers with two of the three declared
\* datasets
C8_Witness ==
    /\ ret.op = "search_datasets"
    /\ db.datasets # {}
    /\ ret.out.index_error = "DatabaseError"
    /\ ret.out.raised = "none"
    /\ Len(ret.out.results) = 2
    /\ Len(ListDatasets(NULL)) = 3

----------------------------------------------------------------------------
(* Properties of rebuild_index *)

\* the ids list_datasets() declares
DeclaredIds == {ListDatasets(NULL)[i].id : i \in DOMAIN ListDatasets(NULL)}

\* the ids that have a manifest in the cache directory
ManifestIds ==
    {manifests[p].data.dataset_id :
        p \in {x \in DOMAIN manifests : manifests[x].kind = "json"}}

\* C9: after rebuild_index every record that was in the catalog before and
\* whose id is neither declared by an adapter nor backed by a manifest is
\* gone, with its variable labels and its shadow row.
C9_RebuildDropsStale ==
    ret.op = "rebuild_index" =>
        \A r \in ret.before.datasets :
            r.id \notin (DeclaredIds \cup ManifestIds) =>
                /\ SelectRow(db, r.id) = {}
                /\ \A l \in db.variable_labels : l.dataset_id # r.id
                /\ \A f \in db.datasets_fts : f.id # r.id

\* C10: a rebuild_index that directly follows a rebuild_index that returned
\* leaves the catalog as it found it: the same ids, and per id the same
\* title, license and variable labels.
C10_RebuildIdempotent ==
    (ret.op = "rebuild_index" /\ ret.previous = "rebuild_index") =>
        Catalog(db) = Catalog(ret.before)

\* the second of two rebuilds in a row, over a cache directory with the
\* manifest of manual:wvs, which gave that record its labels
C10_Witness ==
    /\ ret.op = "rebuild_index" /\ ret.previous = "rebuild_index"
    /\ ret.raised = "none"
    /\ DOMAIN Catalog(db) = DeclaredIds
    /\ Catalog(db)[id_wvs].variable_labels = Range(age_labels)
    /\ \E r \in db.datasets : r.id = id_wvs /\ r.updated_at > r.created_at

\* C11: rebuild_index returns without raising whatever happens to one
\* dataset (its manifest missing, not JSON or of the wrong shape, its
\* index_dataset failing), and every other declared dataset has a record
\* afterwards.
C11_RebuildNeverAborts ==
    ret.op = "rebuild_index" =>
        /\ ret.raised = "none"
        /\ \A i \in DOMAIN ListDatasets(NULL) :
               i # ret.stop => SelectRow(db, ListDatasets(NULL)[i].id) # {}

----------------------------------------------------------------------------
(* Properties of the life of a record *)

\* the ids with a row in the datasets table
RecordIds(d) == {r.id : r \in d.datasets}

\* a step of clear_index
IsClearStep == last_write' = "clear_index" /\ ops' = ops + 1

\* C13: get_dataset_info(id) returns None, and raises nothing, exactly when
\* no index_dataset for id has committed since the file was created or
\* cleared; and no step other than clear_index removes a record: not an
\* index_dataset of another id, a get_dataset_info or a rebuild_index (the
\* searches only SELECT, and their steps leave db as it is).
C13_AbsentIffNeverIndexed ==
    /\ [](ret.op = "get_dataset_info" =>
              (~ret.info.found <=> ret.dataset_id \notin DOMAIN indexed))
    /\ [][~IsClearStep => RecordIds(db) \subseteq RecordIds(db')]_vars

\* get_dataset_info finds the record of an undeclared id right after a
\* rebuild_index, and finds none for a declared id that rebuild_index did
\* not reach
C13_Witness ==
    /\ ret.op = "get_dataset_info" /\ last_write = "rebuild_index raised"
    /\ RecordIds(db) = {id_test, id_wvs}
    /\ \/ (ret.dataset_id = id_test /\ ret.info.found)
       \/ (ret.dataset_id = id_gss_2022 /\ ~ret.info.found)

\* C14: clear_index leaves the file with empty tables; until the next write
\* get_dataset_info returns None for every id and search and
\* search_advanced return no record; and the index_dataset that follows
\* commits its record, which get_dataset_info then returns.
C14_ClearEmpties ==
    /\ [][IsClearStep => db' = EmptyDb]_vars
    /\ [](last_write = "clear_index" =>
              /\ ret.op = "get_dataset_info" => ~ret.info.found
              /\ ret.op \in {"search", "search_advanced"} => ret.out.results = <<>>)
    /\ [][(last_write = "clear_index" /\ last_write' = "index_dataset") =>
              \E a \in UpsertInputs :
                  /\ RecordIds(db') = {a.dataset_id}
                  /\ GetDatasetInfo(db', a.dataset_id).found
                  /\ GetDatasetInfo(db', a.dataset_id).title = a.title
                  /\ GetDatasetInfo(db', a.dataset_id).variable_labels
                         = Range(a.variable_labels)]_vars

\* a search for a word of the title of a record that was indexed and then
\* cleared away
C14_Witness ==
    /\ last_write = "clear_index" /\ clock = 2
    /\ ret.op = "search" /\ ret.query = <<"D", "a", "t", "a", "s", "e", "t">>
    /\ ret.out.raised = "none" /\ ret.out.results = <<>>

----------------------------------------------------------------------------
(* Properties of ingestion and recovery *)

\* the cache entries with a manifest of a dataset an adapter declares
DeclaredEntries ==
    {p \in DOMAIN manifests :
        manifests[p].kind = "json" /\ manifests[p].data.dataset_id \in DeclaredIds}

\* C12: for every declared dataset with a manifest in its cache entry, a
\* rebuild_index that follows clear_index and returns leaves a record whose
\* license and variable labels are those of the manifest.
C12_RebuildRestoresManifest ==
    (ret.op = "rebuild_index" /\ ret.previous = "clear_index" /\ ret.raised = "none") =>
        \A p \in DeclaredEntries :
            LET m == manifests[p].data
            IN  /\ m.dataset_id \in DOMAIN Catalog(db)
                /\ Catalog(db)[m.dataset_id].license = m.license
                /\ Catalog(db)[m.dataset_id].variable_labels = Range(m.variable_labels)

\* C16: after an ingestion that indexed its dataset, the catalog has the
\* record and the cache entry of the dataset holds both
\* meta/ingestion_manifest.json and processed/data.parquet: a dataset whose
\* processed table was not written is not indexed.
C16_ManifestAndTableTogether ==
    (ret.op = "ingest" /\ ret.raised = "none" /\ ret.index_error = "none") =>
        /\ SelectRow(db, ret.dataset_id) # {}
        /\ ret.cache_dir \in DOMAIN manifests
        /\ ret.cache_dir \in processed

\* C17: index_dataset_from_manifest raises nothing, and when the manifest
\* file is missing or is not JSON the tables are what they were before the
\* call.
C17_FromManifestNeverRaises ==
    ret.op = "index_dataset_from_manifest" =>
        /\ ret.raised = "none"
        /\ (\/ ret.manifest_path \notin DOMAIN manifests
            \/ manifests[ret.manifest_path].kind = "garbage") =>
               ret.error # "none" /\ db = ret.before

\* a call on a manifest that is not JSON, over a catalog that rebuild_index
\* had filled
C17_Witness ==
    /\ ret.op = "index_dataset_from_manifest"
    /\ ret.manifest_path \in DOMAIN manifests
    /\ manifests[ret.manifest_path].kind = "garbage"
    /\ ret.error = "JSONDecodeError" /\ ret.raised = "none"
    /\ RecordIds(ret.before) = DeclaredIds
    /\ db = ret.before

----------------------------------------------------------------------------
(* Properties of resolve_adapter and api.load *)

\* ":" in x
HasColon(x) == \E i \in DOMAIN x : x[i] = ":"

\* the substring of x before its first colon
BeforeFirstColon(x) ==
    SubSeq(x, 1, (CHOOSE i \in DOMAIN x : x[i] = ":" /\ \A j \in 1..(i - 1) : x[j] # ":") - 1)

\* the source name x stands for
SourceNameOf(x) == IF HasColon(x) THEN BeforeFirstColon(x) ELSE x

\* C15: resolve_adapter(x) returns the adapter registered under the part of
\* x before its first colon when x has a colon and under x otherwise, and
\* raises AdapterNotFoundError when that exact name is no key of the
\* registry; and it changes nothing.
C15_ResolveExact ==
    /\ [](ret.op = "resolve_adapter" =>
              IF SourceNameOf(ret.x) \in Range(AdapterKeys)
              THEN ret.out.raised = "none" /\ ret.out.adapter = SourceNameOf(ret.x)
              ELSE ret.out.raised = "AdapterNotFoundError")
    /\ [][ret'.op = "resolve_adapter" =>
              UNCHANGED <<db, fts5_available, manifests, processed, metadata, cache_ttl_hours, procs>>]_vars

\* an id that begins with a key and is no key is not resolved
C15_Witness ==
    /\ ret.op = "resolve_adapter" /\ ret.x = <<"g", "s", "s", "x", ":", "1">>
    /\ ret.out.raised = "AdapterNotFoundError"

\* the condition under which api.load rejects an id
InvalidDatasetId(x) == Falsy(x) \/ (~HasColon(x) /\ x \notin Range(AdapterKeys))

\* C19: api.load raises nothing but ValueError and DatasetNotFoundError:
\* ValueError exactly for an empty id or an id without colon that is no
\* adapter name, before resolve_adapter or an adapter is called;
\* DatasetNotFoundError exactly when, the id being valid, the adapter is
\* unknown or its load fails; otherwise the table is returned, whatever the
\* language code and whether or not the translation or the validation
\* failed.
C19_LoadErrors ==
    ret.op = "load" =>
        /\ ret.out.raised \in {"none", "ValueError", "DatasetNotFoundError"}
        /\ ret.out.raised = "ValueError" <=> InvalidDatasetId(ret.dataset_id)
        /\ ret.out.raised = "ValueError" =>
               ~ret.out.resolve_called /\ ~ret.out.load_called
        /\ ret.out.raised = "DatasetNotFoundError" <=>
               /\ ~InvalidDatasetId(ret.dataset_id)
               /\ \/ SourceNameOf(ret.dataset_id) \notin Range(AdapterKeys)
                  \/ AdapterLoadError(SourceNameOf(ret.dataset_id), ret.load_fault) # "none"
        /\ ret.out.raised = "none" => ret.out.returned

\* a load with a language code of the wrong length, a failing translation
\* and a failing validation returns the table
C19_Witness ==
    /\ ret.op = "load" /\ ret.dataset_id = <<"g", "s", "s", ":", "g", "s", "s", "-", "2", "0", "2", "2">>
    /\ ret.i18n_fault /\ ret.validate /\ ret.validate_fault
    /\ ret.language \in {<<"d", "e">>, <<"d", "e", "u">>}
    /\ ret.out.raised = "none" /\ ret.out.returned
    /\ ~ret.out.translated /\ ~ret.out.quality_report

----------------------------------------------------------------------------
(* Properties of the HTTP server *)

C20_InfoStatus ==
    ret.op = "http_info" =>
        /\ (ret.index_fault = "none" /\ SelectRow(db, ret.dataset_id) = {}) =>
               ret.out.status = 404
        /\ (ret.index_fault = "none" /\ SelectRow(db, ret.dataset_id) # {}) =>
               ret.out.status = 200 /\ ret.out.info = GetDatasetInfo(db, ret.dataset_id)
        /\ ret.out.status = 500 => ret.index_fault # "none"

----------------------------------------------------------------------------
(* Properties of download_file *)

\* C21: when the attempts fail with exceptions of requests only,
\* download_file makes up to max_tries attempts: it returns dest at the
\* first attempt that succeeds, and raises only after attempt max_tries
\* has failed.
C21_RetriesUpToMaxTries ==
    (ret.op = "download_file"
        /\ \A i \in 1..max_tries : ret.outcomes[i] \in {"ok"} \cup RequestExceptions) =>
        IF \E i \in 1..max_tries : ret.outcomes[i] = "ok"
        THEN /\ ret.out.raised = "none" /\ ret.out.returned
             /\ ret.outcomes[ret.out.attempts] = "ok"
             /\ \A i \in 1..(ret.out.attempts - 1) : ret.outcomes[i] # "ok"
        ELSE ret.out.raised # "none" /\ ret.out.attempts = max_tries

----------------------------------------------------------------------------
(* The cache manager's claims *)

\* is_valid(k) now
Valid(k) == is_valid(metadata, cache_ttl_hours, clock, k)

\* this step is the call op(k)
CacheStep(op, k) == ret = Idle /\ ret'.op = op /\ ret'.key = k

\* C22: for every cache key k, mark_cached(k) makes is_valid(k) true and it
\* stays true until the TTL has elapsed or invalidate(k) is called;
\* invalidate(k) makes it false and it stays false until the next
\* mark_cached(k); mark_cached or invalidate of another key never changes
\* is_valid(k).
C22_ValidBetweenMarkAndInvalidate ==
    [][\A k \in CacheKeys :
          /\ CacheStep("mark_cached", k) => Valid(k)'
          /\ CacheStep("invalidate", k) => ~Valid(k)'
          /\ Valid(k) /\ ~Valid(k)' =>
                \/ CacheStep("invalidate", k)
                \/ /\ k \in DOMAIN metadata'
                   /\ clock' - metadata'[k].cached_at >= cache_ttl_hours
          /\ ~Valid(k) /\ Valid(k)' => CacheStep("mark_cached", k)
          /\ \A other \in CacheKeys \ {k} :
                CacheStep("mark_cached", other) \/ CacheStep("invalidate", other)
                   => (Valid(k)' <=> Valid(k))]_vars

\* invalidate(k) has just removed k while another key, marked earlier, is
\* still valid
C22_Witness ==
    /\ ret.op = "invalidate"
    /\ ret.key \notin DOMAIN metadata
    /\ \E other \in CacheKeys \ {ret.key} :
          /\ Valid(other)
          /\ metadata[other].cached_at < clock

\* C23: cleanup_expired removes exactly the keys for which is_valid is false
\* at that moment, returns how many it removed, leaves every valid entry as
\* it was, and is_valid holds for every entry that remains.
C23_CleanupRemovesExactlyInvalid ==
    [][ret = Idle /\ ret'.op = "cleanup_expired" =>
          LET expired == {k \in DOMAIN metadata : ~Valid(k)}
          IN  /\ DOMAIN metadata' = DOMAIN metadata \ expired
              /\ ret'.out = Cardinality(expired)
              /\ \A k \in DOMAIN metadata' : metadata'[k] = metadata[k]
              /\ \A k \in DOMAIN metadata' : Valid(k)']_vars

----------------------------------------------------------------------------
(* The capability flag *)

\* C24: the full-text capability flag of an instance is determined once,
\* when the index is opened, and no later operation (upsert, search,
\* getInfo, rebuild, clear) changes it.
C24_FlagNeverChanges == [][fts5_available' = fts5_available]_vars

----------------------------------------------------------------------------
(* The search shadow and the frame of an upsert *)

\* the shadow row an index_dataset with arguments a would write at rowid
ShadowOf(rowid, a) ==
    [rowid |-> rowid, id |-> a.dataset_id, source |-> a.source, title |-> a.title,
     description |-> IF a.description = NULL THEN <<>> ELSE a.description,
     variable_labels |-> VarLabelsText(a.variable_labels),
     value_labels |-> ValLabelsText(a.value_labels)]

\* C25: with FTS5, after any sequence of upserts every record has exactly one
\* shadow row of its rowid, holding the title, description and label blobs of
\* the record's most recent upsert, and no shadow row is without a record.
C25_ShadowRowAligned ==
    fts5_available =>
        /\ \A r \in db.datasets :
              /\ Cardinality({s \in db.datasets_fts : s.rowid = r.rowid}) = 1
              /\ \A s \in db.datasets_fts :
                    s.rowid = r.rowid =>
                        /\ s.title = ShadowOf(r.rowid, LastArgs(r.id)).title
                        /\ s.description = ShadowOf(r.rowid, LastArgs(r.id)).description
                        /\ s.variable_labels = ShadowOf(r.rowid, LastArgs(r.id)).variable_labels
                        /\ s.value_labels = ShadowOf(r.rowid, LastArgs(r.id)).value_labels
        /\ \A s \in db.datasets_fts : \E r \in db.datasets : r.rowid = s.rowid

\* this step is an index_dataset for dataset_id
UpsertStepOf(dataset_id) ==
    /\ ops' = ops + 1
    /\ last_write' = "index_dataset"
    /\ dataset_id \in DOMAIN indexed'
    /\ \/ dataset_id \notin DOMAIN indexed
       \/ Len(indexed'[dataset_id]) = Len(indexed[dataset_id]) + 1

\* the rows of the other records and their labels
OtherRows(d, dataset_id) ==
    [datasets |-> {r \in d.datasets : r.id # dataset_id},
     variable_labels |-> {l \in d.variable_labels : l.dataset_id # dataset_id}]

\* C26: an upsert for an id that exists leaves the record's source and
\* created_at as they were, even when another source is passed, and leaves
\* every other record and its labels as they were; the record stays one
\* record of the same id and row.
C26_UpsertFrame ==
    [][\A dataset_id \in DatasetIds :
          (UpsertStepOf(dataset_id) /\ SelectRow(db, dataset_id) # {}) =>
              /\ Cardinality(SelectRow(db', dataset_id)) = 1
              /\ \A old \in SelectRow(db, dataset_id), new \in SelectRow(db', dataset_id) :
                    /\ new.source = old.source
                    /\ new.created_at = old.created_at
                    /\ new.rowid = old.rowid
              /\ OtherRows(db', dataset_id) = OtherRows(db, dataset_id)]_vars

\* a record was upserted again under another source than it holds, next to
\* another record that has labels
C26_Witness ==
    /\ last_write = "index_dataset"
    /\ \E r \in db.datasets :
          /\ Len(indexed[r.id]) >= 2
          /\ LastArgs(r.id).source # r.source
          /\ r.updated_at = clock - 1
          /\ r.updated_at > r.created_at
          /\ \E l \in db.variable_labels : l.dataset_id # r.id

\* C27: an upsert is all-or-nothing: when it fails part-way, get_dataset_info
\* and the searches see the catalog exactly as it was before the call.
C27_FailedUpsertChangesNothing ==
    [][(ret = Idle /\ ret'.op = "index_dataset" /\ ret'.raised # "none") =>
          /\ \A dataset_id \in DatasetIds :
                GetDatasetInfo(db', dataset_id) = GetDatasetInfo(db, dataset_id)
          /\ db'.datasets = db.datasets
          /\ db'.variable_labels = db.variable_labels
          /\ db'.datasets_fts = db.datasets_fts]_vars

\* an upsert of a record that has labels has failed after its old labels
\* were deleted and before all new ones were inserted
C27_Witness ==
    /\ ret.op = "index_dataset"
    /\ ret.raised = "OperationalError"
    /\ ret.fault_step >= 3
    /\ SelectRow(ret.before, ret.args.dataset_id) # {}
    /\ \E l \in db.variable_labels : l.dataset_id = ret.args.dataset_id
    /\ GetDatasetInfo(db, ret.args.dataset_id).variable_labels
          # {<<p[1], p[2]>> : p \in Range(ret.args.variable_labels)}

----------------------------------------------------------------------------
(* Concurrent upserts *)

\* both processes have left index_dataset
BothFinished ==
    /\ procs # NoProcs
    /\ \A p \in Procs : procs[p].pc \in {"done", "failed"}

\* the record r and its labels are those of the call of process p
FromCallOf(r, p) ==
    /\ r.title = procs[p].args.title
    /\ r.description = procs[p].args.description
    /\ r.license = procs[p].args.license
    /\ r.access_mode = procs[p].args.access_mode
    /\ r.updated_at = procs[p].now
    /\ {<<l.variable_name, l.label>> :
           l \in {x \in db.variable_labels : x.dataset_id = r.id}}
          = {<<v[1], v[2]>> : v \in Range(procs[p].args.variable_labels)}

\* C28: when two processes upsert the same id concurrently, every
\* interleaving of their existence check, write and commit ends with exactly
\* one record of the id, whose fields and labels all come from one of the two
\* calls, and neither upsert fails.
C28_ConcurrentUpsertsBothSucceed ==
    BothFinished =>
        /\ \A p \in Procs : procs[p].raised = "none"
        /\ Cardinality(SelectRow(db, procs[1].args.dataset_id)) = 1
        /\ \A r \in SelectRow(db, procs[1].args.dataset_id) :
              \E p \in Procs : FromCallOf(r, p)

----------------------------------------------------------------------------
(* The advanced search of the facade *)

\* C29: every dataset the facade search_datasets_advanced returns satisfies
\* every supplied predicate, also when the fallback answers: with
\* variable_name given it has an indexed variable name containing it, with
\* source given it is of that source, with query given the query matches it.
C29_FacadeAdvancedConjunction ==
    (ret.op = "search_datasets_advanced" /\ ret.out.raised = "none") =>
        \A i \in DOMAIN ret.out.results :
            LET dataset_id == ret.out.results[i].id
            IN  /\ ~Falsy(ret.variable_name) =>
                      \E l \in db.variable_labels :
                          /\ l.dataset_id = dataset_id
                          /\ PyIn(PyLower(ret.variable_name), PyLower(l.variable_name))
                /\ ~Falsy(ret.source) => ret.out.results[i].source = ret.source
                /\ ~Falsy(ret.query) =>
                      /\ dataset_id \in DOMAIN indexed
                      /\ QueryMatchesRecord(dataset_id, ret.query)

----------------------------------------------------------------------------
(* The order of indexing *)

\* the title, license, access mode and labels the catalog d holds for an id
IndexedAs(d, dataset_id) ==
    [rows |-> {[title |-> r.title, license |-> r.license, access_mode |-> r.access_mode] :
                  r \in SelectRow(d, dataset_id)},
     variable_labels |-> {<<l.variable_name, l.label>> :
                             l \in {x \in d.variable_labels : x.dataset_id = dataset_id}}]

\* rebuild_index() and then index_dataset_from_manifest(dataset_id, p)
RebuildThenManifest(dataset_id, p) ==
    LET rebuilt == RebuildIndex(db, fts5_available, manifests, clock, 0)
    IN  IndexDatasetFromManifest(rebuilt, fts5_available, manifests, dataset_id, p,
                                 clock + Len(ListDatasets(NULL)), "none").db

\* index_dataset_from_manifest(dataset_id, p) and then rebuild_index()
ManifestThenRebuild(dataset_id, p) ==
    LET indexed_first == IndexDatasetFromManifest(db, fts5_available, manifests,
                                                  dataset_id, p, clock, "none").db
    IN  RebuildIndex(indexed_first, fts5_available, manifests, clock + 1, 0)

\* C30: for a dataset an adapter declares and that has a manifest on disk,
\* rebuild_index followed by index_dataset_from_manifest leaves the same
\* title, license, access mode and label set as index_dataset_from_manifest
\* followed by rebuild_index.
C30_IndexingOrderIrrelevant ==
    \A p \in DeclaredEntries :
        LET dataset_id == manifests[p].data.dataset_id
        IN  IndexedAs(RebuildThenManifest(dataset_id, p), dataset_id)
               = IndexedAs(ManifestThenRebuild(dataset_id, p), dataset_id)

====
